---- MODULE Spec2Model ----
(***************************************************************************)
(* Corrective retrieval-and-generation (CRAG) pipeline of rag-system:      *)
(* hybrid retrieval over tenant schemas, relevance grading, query rewrite, *)
(* web fallback and answer generation, as wired by create_crag_graph.      *)
(***************************************************************************)
EXTENDS Integers, Sequences, FiniteSets, TLC

VARIABLES
    documents,        \* schema name -> rows of <schema>.documents
    chunks,           \* schema name -> rows of <schema>.chunks
    tavily_api_key,   \* settings.tavily_api_key
    requests,         \* invocation -> the (tenant, provider, query) calls of run_crag it may serve
    pc,               \* invocation -> position in the graph
    tenant,           \* invocation -> tenant the graph was compiled for
    provider,         \* invocation -> provider the graph was compiled for
    state,            \* invocation -> AgentState
    local,            \* invocation -> locals of retriever.retrieve and of the nodes
    trace,            \* invocation -> node names in the order they started
    calls,            \* invocation -> number of external calls per call site
    result,           \* invocation -> what run_crag returned
    ingest_jobs,      \* schema name -> rows of <schema>.ingest_jobs
    upload            \* upload -> position and locals of upload_document and run_pipeline

vars == <<documents, chunks, tavily_api_key, requests, pc, tenant, provider, state,
          local, trace, calls, result, ingest_jobs, upload>>

-----------------------------------------------------------------------------
(* Values *)

\* Python None / SQL NULL
Null == "<None>"

\* the truthiness test of `if x:` on an optional string
Truthy(s) == s # Null /\ s # ""

Range(s) == {s[i] : i \in 1..Len(s)}

Min(a, b) == IF a <= b THEN a ELSE b

Take(s, n) == SubSeq(s, 1, Min(n, Len(s)))

\* len(str(n)) for n >= 0
RECURSIVE DecLen(_)
DecLen(n) == IF n < 10 THEN 1 ELSE 1 + DecLen(n \div 10)

\* concurrent run_crag invocations
Invocations == {"r1", "r2"}

Schemas == {"tenant_a", "tenant_b", "tenant_c"}

-----------------------------------------------------------------------------
(* Settings *)

max_retrieval_k == 5

retrieval_fetch_multiplier == 20

_CHUNK_PREVIEW_CHARS == 800

_MAX_CONTEXT_CHARS == 12000

\* `if remaining > 200` in _build_vector_context
MinPartialChars == 200

\* client.search(query, max_results=3)
TavilyMaxResults == 3

-----------------------------------------------------------------------------
(* Tenants: rows of public.tenants *)

Tenants == {"ea", "acme", "newco"}

\* has_restricted: whether config has the key "restricted_doc_types"
TenantRow(t) ==
    CASE t = "ea" ->
           [tenant_id |-> "ea", name |-> "Elastomers Australia",
            schema_name |-> "tenant_a",
            config |-> [has_restricted |-> TRUE,
                        restricted_doc_types |-> <<"ENG-MAT">>]]
      [] t = "acme" ->
           [tenant_id |-> "acme", name |-> "Acme",
            schema_name |-> "tenant_b",
            config |-> [has_restricted |-> FALSE,
                        restricted_doc_types |-> <<>>]]
      [] t = "newco" ->
           [tenant_id |-> "newco", name |-> "NewCo",
            schema_name |-> "tenant_c",
            config |-> [has_restricted |-> TRUE,
                        restricted_doc_types |-> <<"SOP", "ENG-MAT">>]]

\* config.get("restricted_doc_types", [])
RestrictedDocTypes(t) ==
    IF TenantRow(t).config.has_restricted
    THEN TenantRow(t).config.restricted_doc_types
    ELSE <<>>

-----------------------------------------------------------------------------
(* The stored documents and chunks *)

Doc(id, doc_type, doc_number, title, classification, status) ==
    [id |-> id, doc_type |-> doc_type, doc_number |-> doc_number,
     title |-> title, classification |-> classification,
     s3_key |-> "s3/" \o id, status |-> status, file_hash |-> "sha256/" \o id]

\* content is a text of `len` characters, named by `text`
Chunk(id, document_id, page_number, heading, len, dist) ==
    [id |-> id, document_id |-> document_id, page_number |-> page_number,
     heading |-> heading, content |-> [text |-> id, len |-> len],
     dist |-> dist]

InitialDocuments ==
    [s \in Schemas |->
        IF s = "tenant_a"
        THEN { Doc("dA1", "SOP", "EA-SOP-001", "Screen installation", "INTERNAL", "completed"),
               Doc("dA2", "ENG-MAT", "EA-ENG-MAT-7", "Rubber compounds", "CONFIDENTIAL", "completed"),
               Doc("dA3", Null, Null, Null, Null, "completed"),
               Doc("dA4", "SOP", "EA-SOP-002", "Draft", "INTERNAL", "processing") }
        ELSE IF s = "tenant_b"
        THEN { Doc("dB1", "ENG-MAT", "AC-MAT-1", "Alloys", Null, "completed"),
               Doc("dB2", "SOP", "AC-SOP-9", "Welding", "INTERNAL", "completed") }
        ELSE { Doc("dC1", "SOP", "NC-SOP-1", "Onboarding", "INTERNAL", "completed") }]

InitialChunks ==
    [s \in Schemas |->
        IF s = "tenant_a"
        THEN { Chunk("cA1", "dA1", 3, "Torque", 9000, 1),
               Chunk("cA2", "dA1", 12, Null, 5000, 3),
               Chunk("cA3", "dA2", 1, "Compounds", 300, 2),
               Chunk("cA4", "dA3", 1, Null, 100, 2),
               Chunk("cA5", "dA4", 1, "Draft", 50, 0) }
        ELSE IF s = "tenant_b"
        THEN { Chunk("cB1", "dB1", 2, "Alloys", 11900, 1),
               Chunk("cB2", "dB2", 7, Null, 12500, 2) }
        ELSE { Chunk("cC1", "dC1", 1, "Welcome", 700, 1) }]

\* RetrievedChunk(...) built from one row of the join
RetrievedChunk(c, d) ==
    [chunk_id |-> c.id, document_id |-> d.id, doc_number |-> d.doc_number,
     doc_type |-> d.doc_type, title |-> d.title,
     classification |-> d.classification, s3_key |-> d.s3_key,
     page_number |-> c.page_number, heading |-> c.heading,
     content |-> c.content, similarity_score |-> c.dist]

-----------------------------------------------------------------------------
(* vector_store.search *)

\* QueryFilters(): every field None
EmptyFilters == [doc_type |-> Null, doc_number |-> Null, classification |-> Null]

\* SQL `col = :param`: NULL = x is not true
SqlEq(col, param) == col # Null /\ param # Null /\ col = param

\* SQL `col NOT IN (:r0, :r1, ...)`: not true for a NULL col or a NULL in the list
SqlNotIn(col, list) ==
    /\ col # Null
    /\ \A i \in 1..Len(list) : list[i] # Null /\ col # list[i]

\* faulty variant: only the doc_type filter reaches the WHERE clause
FilterClausesDocTypeOnly(d, filters) ==
    Truthy(filters.doc_type) => SqlEq(d.doc_type, filters.doc_type)

\* the clauses the optional filters add to where_clauses
FilterClauses(d, filters) ==
    /\ Truthy(filters.doc_type) => SqlEq(d.doc_type, filters.doc_type)
    /\ Truthy(filters.doc_number) => SqlEq(d.doc_number, filters.doc_number)
    /\ Truthy(filters.classification) => SqlEq(d.classification, filters.classification)

\* `if restricted:` adds d.doc_type NOT IN (...), whatever the filters are
RestrictedClause(d, restricted) ==
    restricted # <<>> => SqlNotIn(d.doc_type, restricted)

\* faulty variant: a doc_type filter takes the place of the exclusion
WhereSqlFilterOverrides(d, filters, restricted) ==
    /\ d.status = "completed"
    /\ FilterClauses(d, filters)
    /\ ~Truthy(filters.doc_type) => RestrictedClause(d, restricted)

\* faulty variant: documents of any status are searched
WhereSqlAnyStatus(d, filters, restricted) ==
    /\ FilterClauses(d, filters)
    /\ RestrictedClause(d, restricted)

WhereSql(d, filters, restricted) ==
    /\ d.status = "completed"
    /\ FilterClauses(d, filters)
    /\ RestrictedClause(d, restricted)

\* faulty variant: the table names are prefixed with one fixed schema
SearchSchemaShared(t) == "tenant_a"

\* schema = tenant.schema_name, prefixed to both table names
SearchSchema(t) == TenantRow(t).schema_name

\* FROM {schema}.chunks c JOIN {schema}.documents d ON c.document_id = d.id WHERE ...
EligibleRows(t, filters) ==
    LET schema == SearchSchema(t)
    IN  { RetrievedChunk(c, d) :
            <<c, d>> \in { cd \in chunks[schema] \X documents[schema] :
                             /\ cd[1].document_id = cd[2].id
                             /\ WhereSql(cd[2], filters, RestrictedDocTypes(t)) } }

RECURSIVE Orderings(_)
Orderings(S) ==
    IF S = {} THEN {<<>>}
    ELSE UNION { { <<x>> \o o : o \in Orderings(S \ {x}) } : x \in S }

\* faulty variant: ORDER BY ... DESC
DescendingByDistance(S) ==
    { o \in Orderings(S) :
        \A i \in 1..Len(o), j \in 1..Len(o) :
            i < j => o[i].similarity_score >= o[j].similarity_score }

\* ORDER BY c.embedding <=> :query_vec (ascending); rows at equal distance
\* come in an order the database chooses
AscendingByDistance(S) ==
    { o \in Orderings(S) :
        \A i \in 1..Len(o), j \in 1..Len(o) :
            i < j => o[i].similarity_score <= o[j].similarity_score }

\* the lists search can return: ORDER BY ... LIMIT :fetch_k
VectorSearch(t, filters, fetch_k) ==
    { Take(o, fetch_k) : o \in AscendingByDistance(EligibleRows(t, filters)) }

-----------------------------------------------------------------------------
(* bm25_ranker.rank *)

\* scores BM25Plus.get_scores may give a candidate
BM25Scores == {0, 1, 2}

\* faulty variant: an index goes in front of the indices of equal score
RECURSIVE SortedDescUnstable(_, _)
SortedDescUnstable(scores, n) ==
    IF n = 0 THEN <<>>
    ELSE LET prev == SortedDescUnstable(scores, n - 1)
             pos  == Cardinality({ i \in 1..Len(prev) : scores[prev[i]] > scores[n] })
         IN  SubSeq(prev, 1, pos) \o <<n>> \o SubSeq(prev, pos + 1, Len(prev))

\* sorted(range(n), key=lambda i: scores[i], reverse=True): stable, so equal
\* scores keep their original order
RECURSIVE SortedDesc(_, _)
SortedDesc(scores, n) ==
    IF n = 0 THEN <<>>
    ELSE LET prev == SortedDesc(scores, n - 1)
             \* n goes after every index whose score is >= its own
             pos  == Cardinality({ i \in 1..Len(prev) : scores[prev[i]] >= scores[n] })
         IN  SubSeq(prev, 1, pos) \o <<n>> \o SubSeq(prev, pos + 1, Len(prev))

\* faulty variant: the candidates are sorted by score also without keywords
RankAlwaysScored(candidates, keywords, k, scores) ==
    IF candidates = <<>> THEN <<>>
    ELSE LET ranked_indices == SortedDesc(scores, Len(candidates))
         IN  [ i \in 1..Min(k, Len(candidates)) |-> candidates[ranked_indices[i]] ]

\* rank(candidates, keywords, k), given the scores BM25Plus computed
Rank(candidates, keywords, k, scores) ==
    IF candidates = <<>> THEN <<>>
    ELSE IF keywords = <<>> THEN Take(candidates, k)
    ELSE LET ranked_indices == SortedDesc(scores, Len(candidates))
         IN  [ i \in 1..Min(k, Len(candidates)) |-> candidates[ranked_indices[i]] ]

-----------------------------------------------------------------------------
(* Texts: a str is modelled as the sequence of its characters where the code *)
(* looks inside it (queries, rewritten queries, keywords)                    *)

DQ == "\""

SQ == "'"

Whitespace == {" "}

\* str.lower() on one character
LowerChar(c) == IF c = "T" THEN "t" ELSE c

Lower(s) == [i \in 1..Len(s) |-> LowerChar(s[i])]

\* str.strip(chars): drops every leading and every trailing character in chars
RECURSIVE LStrip(_, _)
LStrip(s, chars) ==
    IF s # <<>> /\ Head(s) \in chars THEN LStrip(Tail(s), chars) ELSE s

RECURSIVE RStrip(_, _)
RStrip(s, chars) ==
    IF s # <<>> /\ s[Len(s)] \in chars
    THEN RStrip(SubSeq(s, 1, Len(s) - 1), chars) ELSE s

Strip(s, chars) == RStrip(LStrip(s, chars), chars)

\* str.split(): the maximal runs of non-whitespace characters
RECURSIVE SplitFrom(_, _, _)
SplitFrom(s, cur, acc) ==
    IF s = <<>> THEN (IF cur = <<>> THEN acc ELSE Append(acc, cur))
    ELSE IF Head(s) \in Whitespace
         THEN SplitFrom(Tail(s), <<>>, IF cur = <<>> THEN acc ELSE Append(acc, cur))
         ELSE SplitFrom(Tail(s), Append(cur, Head(s)), acc)

Split(s) == SplitFrom(s, <<>>, <<>>)

\* the user queries run_crag is called with (ChatRequest.query: min_length=1)
Queries ==
    { <<"T", "q">>, <<" ">>,
      <<"a", " ", "b", " ", "c", " ", "d", " ", "e", " ", "f">> }

-----------------------------------------------------------------------------
(* The language-model provider *)

\* OpenAIProvider.generate returns the pair (text, usage) that
\* BaseLLMProvider.generate declares; a provider whose generate returns the
\* bare text is what BedrockProvider.generate declares (-> str) and what the
\* repository's tests stub
Providers == {"OpenAIProvider", "TextProvider"}

\* the shape of the value `await provider.generate(...)` evaluates to
GenerateReturns(p) == IF p = "OpenAIProvider" THEN "tuple" ELSE "str"

\* the usage a generate call reports next to the text: LLMUsage(input_tokens,
\* output_tokens) from response.usage, nothing from a provider returning text
UsagePerCall(p) ==
    IF GenerateReturns(p) = "tuple"
    THEN [reported |-> TRUE, input_tokens |-> 7, output_tokens |-> 3]
    ELSE [reported |-> FALSE, input_tokens |-> 0, output_tokens |-> 0]

\* JSON values of a model reply, tagged by their JSON type; Missing: key absent
JVal(t, v) == [t |-> t, v |-> v]
Missing == JVal("missing", "")
JNull == JVal("null", "")
JBool(v) == JVal("bool", v)
JStr(v) == JVal("str", v)
JNum(v) == JVal("num", v)
JArr(v) == JVal("array", v)

\* json.loads(raw): TypeError unless raw is a str, JSONDecodeError unless the
\* text is JSON; reply.syntax is the kind of text the model wrote
JsonLoads(shape, reply) ==
    IF shape # "str" THEN [ok |-> FALSE, error |-> "TypeError"]
    ELSE IF reply.syntax = "invalid" THEN [ok |-> FALSE, error |-> "JSONDecodeError"]
    ELSE [ok |-> TRUE, error |-> ""]

\* pydantic's (lax) validation of a field annotated bool: a bool, the numbers
\* 0 and 1, and the strings that spell a truth value are accepted
BoolStringsTrue == {"1", "on", "t", "true", "y", "yes"}
BoolStringsFalse == {"0", "off", "f", "false", "n", "no"}

ValidBool(j) ==
    \/ j.t = "bool"
    \/ j.t = "num" /\ j.v \in {"0", "1"}
    \/ j.t = "str" /\ j.v \in BoolStringsTrue \cup BoolStringsFalse

BoolOf(j) ==
    IF j.t = "bool" THEN j.v = "true"
    ELSE IF j.t = "num" THEN j.v = "1"
    ELSE j.v \in BoolStringsTrue

\* a field annotated `str = ""`: absent takes the default, otherwise a str
ValidStrDefault(j) == j.t \in {"missing", "str"}

\* a field annotated `str | None = None`
ValidOptStr(j) == j.t \in {"missing", "null", "str"}

OptStrOf(j) == IF j.t = "str" THEN j.v ELSE Null

-----------------------------------------------------------------------------
(* filter_extractor.extract and keyword_generator.generate *)

\* what the model can reply to the filter-extraction prompt
FilterReply(raises, syntax, doc_type, doc_number, classification) ==
    [raises |-> raises, syntax |-> syntax, doc_type |-> doc_type,
     doc_number |-> doc_number, classification |-> classification]

FilterReplies ==
    { FilterReply(TRUE, "none", Missing, Missing, Missing),
      FilterReply(FALSE, "invalid", Missing, Missing, Missing),
      FilterReply(FALSE, "array", Missing, Missing, Missing),
      FilterReply(FALSE, "object", JNum("7"), JNull, JNull),
      FilterReply(FALSE, "object", JStr("SOP"), JNum("7"), JNull),
      FilterReply(FALSE, "object", JNull, JNull, JStr("INTERNAL")) }
    \cup { FilterReply(FALSE, "object", dt, dn, JNull) :
             dt \in {JNull, JStr(""), JStr("SOP"), JStr("ENG-MAT")},
             dn \in {Missing, JStr("EA-SOP-001")} }

\* QueryFilters.model_validate(data)
QueryFiltersValid(reply) ==
    /\ reply.syntax = "object"
    /\ ValidOptStr(reply.doc_type)
    /\ ValidOptStr(reply.doc_number)
    /\ ValidOptStr(reply.classification)

\* faulty variant: whatever string fields the reply has are used, errors or not
ExtractKeepsFields(shape, reply) ==
    [doc_type |-> OptStrOf(reply.doc_type),
     doc_number |-> OptStrOf(reply.doc_number),
     classification |-> OptStrOf(reply.classification)]

\* extract(query, tenant, provider): empty filters on any exception
Extract(shape, reply) ==
    IF reply.raises \/ ~JsonLoads(shape, reply).ok \/ ~QueryFiltersValid(reply)
    THEN EmptyFilters
    ELSE [doc_type |-> OptStrOf(reply.doc_type),
          doc_number |-> OptStrOf(reply.doc_number),
          classification |-> OptStrOf(reply.classification)]

\* what the model can reply to the keyword prompt; keywords is the value of
\* the "keywords" key when it is a list of str
KeywordReply(raises, syntax, listed, keywords) ==
    [raises |-> raises, syntax |-> syntax, listed |-> listed, keywords |-> keywords]

Kw(n) == [i \in 1..n |-> <<"k">>]

KeywordReplies ==
    { KeywordReply(TRUE, "none", FALSE, <<>>),
      KeywordReply(FALSE, "invalid", FALSE, <<>>),
      KeywordReply(FALSE, "object", FALSE, <<>>),
      KeywordReply(FALSE, "object", TRUE, <<>>),
      KeywordReply(FALSE, "object", TRUE, Kw(3)),
      KeywordReply(FALSE, "object", TRUE, Kw(5)),
      KeywordReply(FALSE, "object", TRUE, Kw(11)) }

\* RankingKeywords: keywords: list[str] = Field(min_length=1, max_length=10)
RankingKeywordsValid(reply) ==
    /\ reply.syntax = "object"
    /\ reply.listed
    /\ Len(reply.keywords) >= 1
    /\ Len(reply.keywords) <= 10

\* faulty variant: the fallback returns every token
FallbackKeywordsAll(query) == Split(Lower(query))

\* the fallback: tokens[:5] if len(tokens) >= 5 else tokens
FallbackKeywords(query) ==
    LET tokens == Split(Lower(query))
    IN  IF Len(tokens) >= 5 THEN SubSeq(tokens, 1, 5) ELSE tokens

\* generate(query, tenant, provider)
GenerateKeywords(query, shape, reply) ==
    IF reply.raises \/ ~JsonLoads(shape, reply).ok \/ ~RankingKeywordsValid(reply)
    THEN FallbackKeywords(query)
    ELSE reply.keywords

-----------------------------------------------------------------------------
(* The nodes' pure parts *)

\* what the model can reply to the grading prompt
GradeReply(raises, syntax, is_relevant, reasoning) ==
    [raises |-> raises, syntax |-> syntax, is_relevant |-> is_relevant,
     reasoning |-> reasoning]

GradeReplies ==
    { GradeReply(TRUE, "none", Missing, Missing),
      GradeReply(FALSE, "invalid", Missing, Missing),
      GradeReply(FALSE, "array", Missing, Missing) }
    \cup { GradeReply(FALSE, "object", r, JStr("because")) :
             r \in { Missing, JNull, JBool("true"), JBool("false"),
                     JStr("true"), JStr("false"), JStr("maybe"),
                     JNum("0"), JNum("1"), JNum("2"), JArr("") } }
    \cup { GradeReply(FALSE, "object", r, why) :
             r \in { JBool("true"), JBool("false") },
             why \in { Missing, JNum("1"), JNull } }

\* GradeDecision.model_validate(...): is_relevant: bool, reasoning: str = ""
GradeDecisionValid(reply) ==
    /\ reply.syntax = "object"
    /\ ValidBool(reply.is_relevant)
    /\ ValidStrDefault(reply.reasoning)

\* faulty variant: the except branch fails closed
GradeFailClosed == FALSE

\* the value of the except branch of grade_node
GradeFailOpen == TRUE

\* faulty variant: no early return for an empty passage list
GradeNodeResultNoShortCircuit(docs, shape, reply) ==
    IF reply.raises \/ ~JsonLoads(shape, reply).ok \/ ~GradeDecisionValid(reply)
    THEN [is_relevant |-> GradeFailOpen, calls |-> 1]
    ELSE [is_relevant |-> BoolOf(reply.is_relevant), calls |-> 1]

\* grade_node's is_relevant; calls: the provider.generate calls it made
GradeNodeResult(docs, shape, reply) ==
    IF docs = <<>> THEN [is_relevant |-> FALSE, calls |-> 0]
    ELSE IF reply.raises \/ ~JsonLoads(shape, reply).ok \/ ~GradeDecisionValid(reply)
         THEN [is_relevant |-> GradeFailOpen, calls |-> 1]
         ELSE [is_relevant |-> BoolOf(reply.is_relevant), calls |-> 1]

\* faulty variant: the conditional edge always takes the fallback
ShouldRewriteAlways(is_relevant) == "rewrite"

\* should_rewrite(state)
\* faulty variant: the two routes are swapped
ShouldRewriteInverted(is_relevant) == IF is_relevant THEN "rewrite" ELSE "generate"

\* faulty variant: irrelevant passages lead back to retrieve
ShouldRewriteRetry(is_relevant) == IF is_relevant THEN "generate" ELSE "retrieve"

ShouldRewrite(is_relevant) == IF is_relevant THEN "generate" ELSE "rewrite"

\* the texts the model can reply to the rewrite prompt
RewriteTexts ==
    { <<"x">>, <<" ", "x", " ">>, <<DQ, "x", DQ>>, <<SQ, "x", SQ>>,
      <<DQ, DQ, "x", DQ, DQ>>, <<DQ, SQ, "x", SQ, DQ>>,
      <<DQ, "x">>, <<>>, <<DQ, DQ>> }

\* rewritten.strip().strip('"').strip("'")
StripRewritten(text) == Strip(Strip(Strip(text, Whitespace), {DQ}), {SQ})

-----------------------------------------------------------------------------
(* web_search_node *)

\* one item of the "results" list TavilyClient.search returns
TavilyItem(n, len) ==
    [title |-> "title", url |-> "https://example.com", content |-> [text |-> n, len |-> len]]

\* the result lists the search can return (max_results = 3)
TavilyResults ==
    { <<>>,
      <<TavilyItem("w1", 120)>>,
      <<TavilyItem("w1", 120), TavilyItem("w2", 2000), TavilyItem("w3", 800)>> }

\* a formatted text is modelled as the sequence of its blocks; "" has none
EmptyText == <<>>

\* "No web results found."
NoWebResults ==
    <<[index |-> 0, title |-> "No web results found.", url |-> "",
       content |-> [text |-> "", len |-> 0]]>>

\* text[:n]
Slice(text, n) == [text |-> text.text, len |-> Min(text.len, n)]

\* faulty variant: no results give the empty text
FormatTavilyResultsEmpty(items) ==
    IF items = <<>> THEN EmptyText
    ELSE [i \in 1..Len(items) |->
            [index |-> i, title |-> items[i].title, url |-> items[i].url,
             content |-> Slice(items[i].content, _CHUNK_PREVIEW_CHARS)]]

\* _format_tavily_results(results)
FormatTavilyResults(items) ==
    IF items = <<>> THEN NoWebResults
    ELSE [i \in 1..Len(items) |->
            [index |-> i, title |-> items[i].title, url |-> items[i].url,
             content |-> Slice(items[i].content, _CHUNK_PREVIEW_CHARS)]]

\* faulty variant: the search is made with the question as asked
QueryForSearchOriginal(st) == st.query

\* faulty variant: the prompts are built on the rewritten query when there is one
QueryForPromptRewritten(st) ==
    IF st.rewritten_query # <<>> THEN st.rewritten_query ELSE st.query

\* query = state["query"] of grade_node, rewrite_node and generate_node
QueryForPrompt(st) == st.query

\* state.get("rewritten_query") or state["query"]
QueryForSearch(st) ==
    IF st.rewritten_query # <<>> THEN st.rewritten_query ELSE st.query

-----------------------------------------------------------------------------
(* generate_node *)

\* heading = f" — {doc.heading}" if doc.heading else ""
HeadingLen(doc) == IF Truthy(doc.heading) THEN 3 + Len(doc.heading) ELSE 0

\* len(f"[{i}] {doc.doc_number or 'N/A'} p.{doc.page_number}{heading}")
LabelLen(i, doc) ==
    1 + DecLen(i) + 2
      + (IF Truthy(doc.doc_number) THEN Len(doc.doc_number) ELSE 3)
      + 3 + DecLen(doc.page_number) + HeadingLen(doc)

\* len(f"{label}\n{snippet}")
BlockLen(i, doc) == LabelLen(i, doc) + 1 + doc.content.len

\* one element of parts: the block of passage i, whole or cut
Part(i, doc, content, truncated) ==
    [index |-> i, chunk_id |-> doc.chunk_id, label_len |-> LabelLen(i, doc),
     content |-> content, truncated |-> truncated]

\* Source(doc_number=..., title=..., page_number=..., s3_key=...)
Source(doc) ==
    [doc_number |-> doc.doc_number, title |-> doc.title,
     page_number |-> doc.page_number, s3_key |-> doc.s3_key, score |-> Null]

\* faulty variant: the citation is put in front
PrependSource(sources, doc) == <<Source(doc)>> \o sources

\* sources.append(Source(...)) for the block just added to parts
AppendSource(sources, doc) == Append(sources, Source(doc))

\* the loop of _build_vector_context from passage i on
RECURSIVE BuildFrom(_, _, _, _, _)
BuildFrom(docs, i, parts, sources, total_chars) ==
    IF i > Len(docs) THEN [parts |-> parts, sources |-> sources]
    ELSE IF total_chars + BlockLen(i, docs[i]) > _MAX_CONTEXT_CHARS
         THEN LET remaining == _MAX_CONTEXT_CHARS - total_chars
              IN  IF remaining > MinPartialChars
                  THEN [parts |-> Append(parts, Part(i, docs[i], Slice(docs[i].content, remaining), TRUE)),
                        sources |-> sources]
                  ELSE [parts |-> parts, sources |-> sources]
         ELSE BuildFrom(docs, i + 1,
                        Append(parts, Part(i, docs[i], docs[i].content, FALSE)),
                        AppendSource(sources, docs[i]),
                        total_chars + BlockLen(i, docs[i]))

\* _build_vector_context(docs)
BuildVectorContext(docs) == BuildFrom(docs, 1, <<>>, <<>>, 0)

\* len("...") of the cut block f"{label}\n{snippet[:remaining]}..."
TruncationMarkerLen == 3

\* len("\n\n") of "\n\n".join(parts)
SeparatorLen == 2

\* len of one element of parts
PartLen(p) ==
    p.label_len + 1 + p.content.len + (IF p.truncated THEN TruncationMarkerLen ELSE 0)

RECURSIVE SumPartLen(_)
SumPartLen(parts) ==
    IF parts = <<>> THEN 0 ELSE PartLen(Head(parts)) + SumPartLen(Tail(parts))

\* len("\n\n".join(parts)): the length of the context string
ContextLen(parts) ==
    IF parts = <<>> THEN 0
    ELSE SumPartLen(parts) + SeparatorLen * (Len(parts) - 1)

\* faulty variant: the branch looks at the passages only
VectorPathAnyDocs(is_relevant, docs) == docs # <<>>

\* the vector branch is taken `if is_relevant and docs`
VectorPath(is_relevant, docs) == is_relevant /\ docs # <<>>

\* context and sources of generate_node; web stands for
\* web_results or "No relevant documents or web results found."
GenerateContext(is_relevant, docs, web_results) ==
    IF VectorPath(is_relevant, docs)
    THEN [path |-> "vector", parts |-> BuildVectorContext(docs).parts,
          web |-> EmptyText, nothing_found |-> FALSE,
          sources |-> BuildVectorContext(docs).sources]
    ELSE [path |-> "web", parts |-> <<>>,
          web |-> web_results, nothing_found |-> (web_results = EmptyText),
          sources |-> <<>>]

\* the texts the model can reply to the answer prompt
AnswerTexts == {"The torque is 45 Nm. [1]", ""}

\* the value generate_node stores as answer: whatever provider.generate returned
AnswerValue(shape, text) == [shape |-> shape, text |-> text]

-----------------------------------------------------------------------------
(* State *)

NoContext ==
    [path |-> "none", parts |-> <<>>, web |-> EmptyText, nothing_found |-> FALSE,
     sources |-> <<>>]

\* no reply of the grading model: grade_node has not called it
NoGradeReply == GradeReply(FALSE, "none", Missing, Missing)

\* retrieve's argument k: int | None, <<>> for None and <<n>> for the int n
NoK == <<>>

\* k = k or settings.max_retrieval_k
RetrieveK(k) == IF k = NoK \/ k = <<0>> THEN max_retrieval_k ELSE k[1]

\* faulty variant: the search is asked for k rows
FetchKNoMultiplier(k) == k

\* fetch_k = k * settings.retrieval_fetch_multiplier
FetchK(k) == k * retrieval_fetch_multiplier

\* no reply of the filter-extraction model, of the keyword model
NoFilterReply == FilterReply(FALSE, "none", Missing, Missing, Missing)

NoKeywordReply == KeywordReply(FALSE, "none", FALSE, <<>>)

\* the locals of an invocation before anything ran; k is retrieve's
\* `k or settings.max_retrieval_k` for the k = None retrieve_node passes
NoLocals ==
    [done |-> {}, k_arg |-> NoK,
     k |-> RetrieveK(NoK), fetch_k |-> FetchK(RetrieveK(NoK)),
     filter_reply |-> NoFilterReply, filters |-> EmptyFilters,
     keyword_reply |-> NoKeywordReply, keywords |-> <<>>, candidates |-> <<>>,
     scores |-> <<>>,
     error |-> "", grade_reply |-> NoGradeReply, rewrite_reply |-> <<>>,
     context |-> NoContext, web_query |-> <<>>, n_results |-> 0,
     prompt_query |-> <<>>]

\* faulty variant: web_search leads back to retrieve, to search again with
\* the rewritten query
EdgeFromLoop(node) ==
    CASE node = "START" -> "retrieve"
      [] node = "retrieve" -> "grade"
      [] node = "rewrite" -> "web_search"
      [] node = "web_search" -> "retrieve"
      [] node = "generate" -> "END"

\* builder.add_edge(node, next): the unconditional edges of the graph
EdgeFrom(node) ==
    CASE node = "START" -> "retrieve"
      [] node = "retrieve" -> "grade"
      [] node = "rewrite" -> "web_search"
      [] node = "web_search" -> "generate"
      [] node = "generate" -> "END"

NoCalls ==
    [extract |-> 0, keywords |-> 0, embed |-> 0, search |-> 0, grade |-> 0,
     rewrite |-> 0, web_search |-> 0, generate |-> 0]

NoResult ==
    [returned |-> FALSE, answer |-> AnswerValue("str", ""), sources |-> <<>>,
     usage |-> Null]

\* initial_state of run_crag
InitialState(query) ==
    [query |-> query, rewritten_query |-> <<>>, retrieved_docs |-> <<>>,
     web_results |-> EmptyText, is_relevant |-> FALSE,
     answer |-> AnswerValue("str", ""), sources |-> <<>>, usage |-> Null]

\* faulty variant: the join does not wait for the embedding
FanOutWithoutEmbed == {"extract", "keywords"}

\* the three operations retrieve hands to asyncio.gather
FanOut == {"extract", "keywords", "embed"}

ApiKeys == {"", "tvly-key"}

\* the uploads that may be made
Uploads == {"u1", "u2"}

\* no row in any <schema>.ingest_jobs
NoJobs == [s \in Schemas |-> {}]

\* the response of upload_document before it is sent
NoResponse == [code |-> 0, job_id |-> Null, status |-> Null, document_id |-> Null]

\* an upload that has not been made; tx_docs holds the Document row the
\* pipeline's session has flushed and not committed
NoUpload ==
    [pc |-> "idle", tenant |-> Null, filename |-> "", pdf_bytes |-> "",
     file_hash |-> Null, job_id |-> Null, response |-> NoResponse,
     pages |-> 0, chunk_pages |-> {}, tx_docs |-> {}, error |-> Null,
     duplicates_at_end |-> {}]

\* the store as ingested, and no node has run
Fresh ==
    /\ documents = InitialDocuments
    /\ chunks = InitialChunks
    /\ ingest_jobs = NoJobs
    /\ upload = [u \in Uploads |-> NoUpload]
    /\ tenant = [i \in Invocations |-> "ea"]
    /\ local = [i \in Invocations |-> NoLocals]
    /\ trace = [i \in Invocations |-> <<>>]
    /\ calls = [i \in Invocations |-> NoCalls]
    /\ result = [i \in Invocations |-> NoResult]

\* nothing has been called yet
Idle ==
    /\ Fresh
    /\ pc = [i \in Invocations |-> "idle"]
    /\ provider = [i \in Invocations |-> "OpenAIProvider"]
    /\ state = [i \in Invocations |-> InitialState(<<"T", "q">>)]

\* one call of run_crag, for any tenant, provider and query
Init ==
    /\ Idle
    /\ tavily_api_key \in ApiKeys
    /\ requests = [i \in Invocations |->
                     IF i = "r1" THEN Tenants \X Providers \X Queries ELSE {}]

\* two calls of run_crag under way at once, one for each tenant
ConcurrentInit ==
    /\ Idle
    /\ tavily_api_key = "tvly-key"
    /\ requests = [i \in Invocations |->
                     IF i = "r1" THEN {<<"ea", "TextProvider", <<"T", "q">> >>}
                     ELSE {<<"acme", "OpenAIProvider", <<"T", "q">> >>}]

store == <<documents, chunks, tavily_api_key, requests, ingest_jobs, upload>>

\* faulty variant: the exception is swallowed and run_crag returns the state
\* as it is
FailSilently(i, error) ==
    /\ pc' = [pc EXCEPT ![i] = "END"]
    /\ local' = [local EXCEPT ![i].error = error, ![i].grade_reply = NoGradeReply]

\* the node raised: graph.ainvoke, and so run_crag, raises
Fail(i, error) ==
    /\ pc' = [pc EXCEPT ![i] = "failed"]
    /\ local' = [local EXCEPT ![i].error = error, ![i].grade_reply = NoGradeReply]

-----------------------------------------------------------------------------
(* run_crag and the nodes of create_crag_graph *)

\* run_crag(query, tenant, provider): compile the graph, enter at START -> retrieve
RunCrag(i) ==
    /\ pc[i] = "idle"
    /\ \E r \in requests[i] :
        /\ tenant' = [tenant EXCEPT ![i] = r[1]]
        /\ provider' = [provider EXCEPT ![i] = r[2]]
        /\ state' = [state EXCEPT ![i] = InitialState(r[3])]
    /\ pc' = [pc EXCEPT ![i] = EdgeFrom("START")]
    /\ UNCHANGED <<store, local, trace, calls, result>>

\* retrieve_node calls retriever.retrieve with
\* state.get("rewritten_query") or state["query"], which starts the three
\* operations of asyncio.gather
RetrieveNode(i) ==
    /\ pc[i] = "retrieve"
    /\ pc' = [pc EXCEPT ![i] = "gather"]
    /\ trace' = [trace EXCEPT ![i] = Append(@, "retrieve")]
    /\ local' = [local EXCEPT ![i] = NoLocals]
    /\ UNCHANGED <<store, tenant, provider, state, calls, result>>

\* filter_extractor.extract completes
ExtractDone(i) ==
    /\ pc[i] = "gather"
    /\ "extract" \notin local[i].done
    /\ \E reply \in FilterReplies :
        local' = [local EXCEPT ![i].done = @ \cup {"extract"},
                               ![i].filter_reply = reply,
                               ![i].filters = Extract(GenerateReturns(provider[i]), reply)]
    /\ calls' = [calls EXCEPT ![i].extract = @ + 1]
    /\ UNCHANGED <<store, pc, tenant, provider, state, trace, result>>

\* keyword_generator.generate completes
KeywordsDone(i) ==
    /\ pc[i] = "gather"
    /\ "keywords" \notin local[i].done
    /\ \E reply \in KeywordReplies :
        local' = [local EXCEPT ![i].done = @ \cup {"keywords"},
                               ![i].keyword_reply = reply,
                               ![i].keywords = GenerateKeywords(QueryForSearch(state[i]),
                                                   GenerateReturns(provider[i]), reply)]
    /\ calls' = [calls EXCEPT ![i].keywords = @ + 1]
    /\ UNCHANGED <<store, pc, tenant, provider, state, trace, result>>

\* faulty variant: a failed embedding is recorded and the fan-out goes on
EmbedDoneSwallowed(i) ==
    /\ pc[i] = "gather"
    /\ "embed" \notin local[i].done
    /\ calls' = [calls EXCEPT ![i].embed = @ + 1]
    /\ \/ local' = [local EXCEPT ![i].done = @ \cup {"embed"}]
       \/ local' = [local EXCEPT ![i].done = @ \cup {"embed"}, ![i].error = "embed"]
    /\ UNCHANGED <<store, pc, tenant, provider, state, trace, result>>

\* provider.embed(query) completes, or raises: gather then raises at once
EmbedDone(i) ==
    /\ pc[i] = "gather"
    /\ "embed" \notin local[i].done
    /\ calls' = [calls EXCEPT ![i].embed = @ + 1]
    /\ \/ /\ local' = [local EXCEPT ![i].done = @ \cup {"embed"}]
          /\ UNCHANGED pc
       \/ Fail(i, "embed")
    /\ UNCHANGED <<store, tenant, provider, state, trace, result>>

\* after the join: vector_store.search in a session of the tenant's schema
SearchStep(i) ==
    /\ pc[i] = "gather"
    /\ local[i].done = FanOut
    /\ calls' = [calls EXCEPT ![i].search = @ + 1]
    /\ \/ \E rows \in VectorSearch(tenant[i], local[i].filters, local[i].fetch_k) :
            /\ local' = [local EXCEPT ![i].candidates = rows]
            /\ pc' = [pc EXCEPT ![i] = "rank"]
       \/ Fail(i, "storage")
    /\ UNCHANGED <<store, tenant, provider, state, trace, result>>

\* bm25_ranker.rank, then retrieve_node returns {"retrieved_docs": docs}
RankStep(i) ==
    /\ pc[i] = "rank"
    /\ \E scores \in [1..Len(local[i].candidates) -> BM25Scores] :
        state' = [state EXCEPT ![i].retrieved_docs =
                     Rank(local[i].candidates, local[i].keywords, local[i].k, scores)]
    /\ local' = [local EXCEPT ![i] = [NoLocals EXCEPT !.k = local[i].k,
                                                      !.fetch_k = local[i].fetch_k,
                                                      !.k_arg = local[i].k_arg]]
    /\ pc' = [pc EXCEPT ![i] = EdgeFrom("retrieve")]
    /\ UNCHANGED <<store, tenant, provider, trace, calls, result>>

\* grade_node, then the conditional edge should_rewrite
GradeNode(i) ==
    /\ pc[i] = "grade"
    /\ trace' = [trace EXCEPT ![i] = Append(@, "grade")]
    /\ \E reply \in GradeReplies :
        LET r == GradeNodeResult(state[i].retrieved_docs, GenerateReturns(provider[i]), reply)
        IN  /\ state' = [state EXCEPT ![i].is_relevant = r.is_relevant]
            /\ calls' = [calls EXCEPT ![i].grade = @ + r.calls]
            /\ local' = [local EXCEPT ![i].grade_reply =
                            IF r.calls = 0 THEN NoGradeReply ELSE reply,
                                      ![i].prompt_query =
                            IF r.calls = 0 THEN <<>> ELSE QueryForPrompt(state[i])]
            /\ pc' = [pc EXCEPT ![i] = ShouldRewrite(r.is_relevant)]
    /\ UNCHANGED <<store, tenant, provider, result>>

\* rewrite_node: the model call raises, or str methods are applied to what it returned
RewriteNode(i) ==
    /\ pc[i] = "rewrite"
    /\ trace' = [trace EXCEPT ![i] = Append(@, "rewrite")]
    /\ calls' = [calls EXCEPT ![i].rewrite = @ + 1]
    /\ \/ /\ Fail(i, "generate")
          /\ UNCHANGED state
       \/ /\ GenerateReturns(provider[i]) # "str"
          /\ Fail(i, "AttributeError")
          /\ UNCHANGED state
       \/ /\ GenerateReturns(provider[i]) = "str"
          /\ \E text \in RewriteTexts :
               /\ state' = [state EXCEPT ![i].rewritten_query = StripRewritten(text)]
               /\ local' = [local EXCEPT ![i].grade_reply = NoGradeReply,
                                         ![i].rewrite_reply = text,
                                         ![i].prompt_query = QueryForPrompt(state[i])]
          /\ pc' = [pc EXCEPT ![i] = EdgeFrom("rewrite")]
    /\ UNCHANGED <<store, tenant, provider, result>>

\* faulty variant: without an API key the node returns the sentinel text
WebSearchNodeSentinel(i) ==
    /\ pc[i] = "web_search"
    /\ trace' = [trace EXCEPT ![i] = Append(@, "web_search")]
    /\ \/ /\ tavily_api_key = ""
          /\ state' = [state EXCEPT ![i].web_results = NoWebResults]
          /\ local' = [local EXCEPT ![i].rewrite_reply = <<>>]
          /\ pc' = [pc EXCEPT ![i] = EdgeFrom("web_search")]
          /\ UNCHANGED calls
       \/ /\ tavily_api_key # ""
          /\ calls' = [calls EXCEPT ![i].web_search = @ + 1]
          /\ \E items \in TavilyResults :
               /\ state' = [state EXCEPT ![i].web_results = FormatTavilyResults(items)]
               /\ local' = [local EXCEPT ![i].rewrite_reply = <<>>,
                                         ![i].web_query = QueryForSearch(state[i]),
                                         ![i].n_results = Len(items)]
               /\ pc' = [pc EXCEPT ![i] = EdgeFrom("web_search")]
    /\ UNCHANGED <<store, tenant, provider, result>>

\* web_search_node
WebSearchNode(i) ==
    /\ pc[i] = "web_search"
    /\ trace' = [trace EXCEPT ![i] = Append(@, "web_search")]
    /\ \/ /\ tavily_api_key = ""
          /\ Fail(i, "ValueError")
          /\ UNCHANGED <<state, calls>>
       \/ /\ tavily_api_key # ""
          /\ calls' = [calls EXCEPT ![i].web_search = @ + 1]
          /\ \/ /\ pc' = [pc EXCEPT ![i] = "failed"]
                /\ local' = [local EXCEPT ![i].error = "tavily",
                                          ![i].rewrite_reply = <<>>,
                                          ![i].web_query = QueryForSearch(state[i])]
                /\ UNCHANGED state
             \/ \E items \in TavilyResults :
                  /\ state' = [state EXCEPT ![i].web_results = FormatTavilyResults(items)]
                  /\ local' = [local EXCEPT ![i].rewrite_reply = <<>>,
                                            ![i].web_query = QueryForSearch(state[i]),
                                            ![i].n_results = Len(items)]
                  /\ pc' = [pc EXCEPT ![i] = EdgeFrom("web_search")]
    /\ UNCHANGED <<store, tenant, provider, result>>

\* generate_node, the edge to END, and run_crag's return of the final state
GenerateNode(i) ==
    /\ pc[i] = "generate"
    /\ trace' = [trace EXCEPT ![i] = Append(@, "generate")]
    /\ calls' = [calls EXCEPT ![i].generate = @ + 1]
    /\ LET ctx == GenerateContext(state[i].is_relevant, state[i].retrieved_docs,
                                  state[i].web_results)
       IN  \/ /\ pc' = [pc EXCEPT ![i] = "failed"]
              /\ local' = [local EXCEPT ![i].error = "generate", ![i].context = ctx,
                                        ![i].grade_reply = NoGradeReply,
                                        ![i].prompt_query = QueryForPrompt(state[i])]
              /\ UNCHANGED <<state, result>>
           \/ \E text \in AnswerTexts :
                LET answer == AnswerValue(GenerateReturns(provider[i]), text)
                IN  /\ state' = [state EXCEPT ![i].answer = answer,
                                              ![i].sources = ctx.sources]
                    /\ local' = [local EXCEPT ![i].context = ctx,
                                              ![i].grade_reply = NoGradeReply,
                                              ![i].prompt_query = QueryForPrompt(state[i])]
                    /\ result' = [result EXCEPT ![i] =
                                    [returned |-> TRUE, answer |-> answer,
                                     sources |-> ctx.sources, usage |-> state[i].usage]]
                    /\ pc' = [pc EXCEPT ![i] = EdgeFrom("generate")]
    /\ UNCHANGED <<store, tenant, provider>>

Next ==
    \E i \in Invocations :
        \/ RunCrag(i)
        \/ RetrieveNode(i)
        \/ ExtractDone(i)
        \/ KeywordsDone(i)
        \/ EmbedDone(i)
        \/ SearchStep(i)
        \/ RankStep(i)
        \/ GradeNode(i)
        \/ RewriteNode(i)
        \/ WebSearchNode(i)
        \/ GenerateNode(i)

Spec == Init /\ [][Next]_vars

ConcurrentSpec == ConcurrentInit /\ [][Next]_vars

\* what one invocation can do next: graph.ainvoke runs the node the edges
\* lead to, and inside retrieve the awaited operations complete
Step(i) ==
    \/ RunCrag(i)
    \/ RetrieveNode(i)
    \/ ExtractDone(i)
    \/ KeywordsDone(i)
    \/ EmbedDone(i)
    \/ SearchStep(i)
    \/ RankStep(i)
    \/ GradeNode(i)
    \/ RewriteNode(i)
    \/ WebSearchNode(i)
    \/ GenerateNode(i)

\* the event loop resumes every coroutine whose awaited call has completed,
\* and every awaited call returns or raises
FairSpec == Init /\ [][Next]_vars /\ \A i \in Invocations : WF_vars(Step(i))

-----------------------------------------------------------------------------
(* The nodes called one at a time on a state the caller built, as the unit   *)
(* tests of the agent call them                                              *)

\* the longest retrieved_docs list a node is handed
MaxPassages == 3

\* every passage a search of some schema could build
AllPassages ==
    UNION { { RetrievedChunk(cd[1], cd[2]) :
                cd \in { x \in InitialChunks[s] \X InitialDocuments[s] :
                           x[1].document_id = x[2].id } } : s \in Schemas }

NodePassages == { p \in AllPassages : p.chunk_id \in {"cA1", "cA2", "cA4", "cB1", "cB2"} }

\* the lists of up to MaxPassages distinct passages
PassageLists ==
    UNION { Orderings(S) : S \in { T \in SUBSET NodePassages : Cardinality(T) <= MaxPassages } }

NodeInit ==
    /\ Fresh
    /\ tavily_api_key \in ApiKeys
    /\ requests = [i \in Invocations |-> {}]
    /\ \E node \in {"grade", "rewrite", "web_search", "generate"},
          p \in Providers,
          docs \in PassageLists,
          is_relevant \in BOOLEAN,
          rewritten_query \in {<<>>, <<"x">>},
          web_results \in {EmptyText, NoWebResults,
                           FormatTavilyResults(<<TavilyItem("w1", 120), TavilyItem("w2", 2000)>>)} :
        /\ pc = [i \in Invocations |-> IF i = "r1" THEN node ELSE "idle"]
        /\ provider = [i \in Invocations |-> p]
        /\ state = [i \in Invocations |->
                      IF i = "r1"
                      THEN [InitialState(<<"T", "q">>) EXCEPT
                              !.retrieved_docs = docs,
                              !.is_relevant = is_relevant,
                              !.rewritten_query = rewritten_query,
                              !.web_results = web_results]
                      ELSE InitialState(<<"T", "q">>)]

NodeNext ==
    \E i \in Invocations :
        \/ GradeNode(i)
        \/ RewriteNode(i)
        \/ WebSearchNode(i)
        \/ GenerateNode(i)

NodeSpec == NodeInit /\ [][NodeNext]_vars

-----------------------------------------------------------------------------
(* bm25_ranker.rank called on its own, with any candidates, keywords and k   *)

\* the largest k rank is called with
MaxRankK == 4

RankKeywords == { <<>>, Kw(1), Kw(3) }

RankInit ==
    /\ documents = InitialDocuments
    /\ chunks = InitialChunks
    /\ ingest_jobs = NoJobs
    /\ upload = [u \in Uploads |-> NoUpload]
    /\ tavily_api_key \in ApiKeys
    /\ requests = [i \in Invocations |-> {}]
    /\ tenant = [i \in Invocations |-> "ea"]
    /\ provider = [i \in Invocations |-> "OpenAIProvider"]
    /\ state = [i \in Invocations |-> InitialState(<<"T", "q">>)]
    /\ trace = [i \in Invocations |-> <<>>]
    /\ calls = [i \in Invocations |-> NoCalls]
    /\ result = [i \in Invocations |-> NoResult]
    /\ pc = [i \in Invocations |-> IF i = "r1" THEN "rank_call" ELSE "idle"]
    /\ \E candidates \in PassageLists, keywords \in RankKeywords, k \in 0..MaxRankK :
        local = [i \in Invocations |->
                   IF i = "r1"
                   THEN [NoLocals EXCEPT !.candidates = candidates,
                                         !.keywords = keywords, !.k = k]
                   ELSE NoLocals]

\* rank(candidates, keywords, k) returns
RankCall(i) ==
    /\ pc[i] = "rank_call"
    /\ \E scores \in [1..Len(local[i].candidates) -> BM25Scores] :
        /\ state' = [state EXCEPT ![i].retrieved_docs =
                        Rank(local[i].candidates, local[i].keywords, local[i].k, scores)]
        /\ local' = [local EXCEPT ![i].scores =
                        IF local[i].candidates = <<>> \/ local[i].keywords = <<>>
                        THEN <<>> ELSE scores]
    /\ pc' = [pc EXCEPT ![i] = "ranked"]
    /\ UNCHANGED <<store, tenant, provider, trace, calls, result>>

RankNext == \E i \in Invocations : RankCall(i)

RankSpec == RankInit /\ [][RankNext]_vars

-----------------------------------------------------------------------------
(* vector_store.search called on its own, with any filters and fetch_k       *)

\* the largest fetch_k search is called with
MaxFetchK == 4

\* a store with more chunks, some at equal distance from the query
SearchChunks ==
    [s \in Schemas |->
        IF s = "tenant_b"
        THEN InitialChunks[s] \cup { Chunk("cB3", "dB2", 8, "Joints", 400, 2),
                                     Chunk("cB4", "dB1", 5, Null, 250, 0),
                                     Chunk("cB5", "dB2", 9, Null, 600, 1) }
        ELSE InitialChunks[s]]

SearchFilters ==
    { EmptyFilters,
      [doc_type |-> "SOP", doc_number |-> Null, classification |-> Null],
      [doc_type |-> "ENG-MAT", doc_number |-> Null, classification |-> Null],
      [doc_type |-> Null, doc_number |-> "AC-SOP-9", classification |-> "INTERNAL"],
      [doc_type |-> "STRAT", doc_number |-> Null, classification |-> Null] }

SearchInit ==
    /\ documents = InitialDocuments
    /\ chunks = SearchChunks
    /\ ingest_jobs = NoJobs
    /\ upload = [u \in Uploads |-> NoUpload]
    /\ tavily_api_key \in ApiKeys
    /\ requests = [i \in Invocations |-> {}]
    /\ provider = [i \in Invocations |-> "OpenAIProvider"]
    /\ state = [i \in Invocations |-> InitialState(<<"T", "q">>)]
    /\ trace = [i \in Invocations |-> <<>>]
    /\ calls = [i \in Invocations |-> NoCalls]
    /\ result = [i \in Invocations |-> NoResult]
    /\ pc = [i \in Invocations |-> IF i = "r1" THEN "search_call" ELSE "idle"]
    /\ \E t \in Tenants : tenant = [i \in Invocations |-> t]
    /\ \E filters \in SearchFilters, fetch_k \in 0..MaxFetchK :
        local = [i \in Invocations |->
                   IF i = "r1"
                   THEN [NoLocals EXCEPT !.filters = filters, !.fetch_k = fetch_k]
                   ELSE NoLocals]

\* search(query_embedding, filters, tenant, session, fetch_k) returns
SearchCall(i) ==
    /\ pc[i] = "search_call"
    /\ \E rows \in VectorSearch(tenant[i], local[i].filters, local[i].fetch_k) :
        local' = [local EXCEPT ![i].candidates = rows]
    /\ calls' = [calls EXCEPT ![i].search = @ + 1]
    /\ pc' = [pc EXCEPT ![i] = "searched"]
    /\ UNCHANGED <<store, tenant, provider, state, trace, result>>

SearchNext == \E i \in Invocations : SearchCall(i)

SearchSpec == SearchInit /\ [][SearchNext]_vars

-----------------------------------------------------------------------------
(* retriever.retrieve called on its own with a k of the caller               *)

\* the largest k retrieve is called with
MaxK == 3

RetrieveArgs == { NoK } \cup { <<n>> : n \in 0..MaxK }

RetrieveInit ==
    /\ Fresh
    /\ tavily_api_key = "tvly-key"
    /\ requests = [i \in Invocations |-> {}]
    /\ pc = [i \in Invocations |-> "idle"]
    /\ state = [i \in Invocations |-> InitialState(<<"T", "q">>)]
    /\ provider \in [Invocations -> Providers]
    /\ provider["r2"] = "OpenAIProvider"

\* retrieve(query, tenant, provider, k): k and fetch_k are computed, then the
\* three operations of asyncio.gather start
RetrieveCall(i) ==
    /\ pc[i] = "idle"
    /\ i = "r1"
    /\ \E t \in Tenants, k \in RetrieveArgs :
        /\ tenant' = [tenant EXCEPT ![i] = t]
        /\ local' = [local EXCEPT ![i] =
                        [NoLocals EXCEPT !.k_arg = k,
                                         !.k = RetrieveK(k),
                                         !.fetch_k = FetchK(RetrieveK(k))]]
    /\ pc' = [pc EXCEPT ![i] = "gather"]
    /\ UNCHANGED <<store, provider, state, trace, calls, result>>

\* return bm25_ranker.rank(candidates, keywords, k)
RetrieveReturn(i) ==
    /\ pc[i] = "rank"
    /\ \E scores \in [1..Len(local[i].candidates) -> BM25Scores] :
        state' = [state EXCEPT ![i].retrieved_docs =
                     Rank(local[i].candidates, local[i].keywords, local[i].k, scores)]
    /\ pc' = [pc EXCEPT ![i] = "retrieved"]
    /\ UNCHANGED <<store, tenant, provider, local, trace, calls, result>>

RetrieveNext ==
    \E i \in Invocations :
        \/ RetrieveCall(i)
        \/ ExtractDone(i)
        \/ KeywordsDone(i)
        \/ EmbedDone(i)
        \/ SearchStep(i)
        \/ RetrieveReturn(i)

RetrieveSpec == RetrieveInit /\ [][RetrieveNext]_vars

-----------------------------------------------------------------------------
(* Ingestion: upload_document and the background task run_pipeline           *)

\* the most pages extract_pages returns
MaxPages == 2

PageIds == <<"p1", "p2", "p3", "p4">>

UploadTenants == {"ea", "acme"}

Filenames == {"manual.pdf", "notes.txt"}

PdfBytes == {"", "pdfA", "pdfB"}

\* file.filename.lower().endswith(".pdf")
IsPdfName(filename) == filename \in {"manual.pdf"}

\* compute_hash: the SHA-256 hex digest of the bytes
ComputeHash(pdf_bytes) == "sha256/" \o pdf_bytes

\* tenant.schema_name of the tenant of upload u
SchemaOf(u) == TenantRow(upload[u].tenant).schema_name

\* find_existing: what SELECT id ... WHERE file_hash = :h LIMIT 1 may give,
\* None for no row
FindExisting(file_hash, docs) ==
    IF \E d \in docs : d.file_hash = file_hash
    THEN { d.id : d \in { x \in docs : x.file_hash = file_hash } }
    ELSE { Null }

\* faulty variant: the column has no unique index
ConflictsNever(rows, file_hash) == FALSE

\* file_hash TEXT NOT NULL UNIQUE: a row with this hash is in the index
Conflicts(rows, file_hash) == \E d \in rows : d.file_hash = file_hash

\* IngestJob(status="pending")
IngestJob(id) ==
    [id |-> id, status |-> "pending", document_id |-> Null, error |-> Null]

\* ts.get(IngestJob, job_id)
JobRow(schema, job_id) == CHOOSE j \in ingest_jobs[schema] : j.id = job_id

\* the table with the row of job.id replaced by job
ReplaceJob(jobs, job) == { IF j.id = job.id THEN job ELSE j : j \in jobs }

\* _update_job("processing")
MarkProcessing(job) == [job EXCEPT !.status = "processing"]

\* faulty variant: the duplicate's job is completed without a document
MarkDuplicateNoDocument(job, existing_id) == [job EXCEPT !.status = "completed"]

\* _update_job("completed", document_id=existing_id)
MarkDuplicate(job, existing_id) ==
    [job EXCEPT !.status = "completed", !.document_id = existing_id]

\* job.status = "completed"; job.document_id = doc.id
MarkCompleted(job, doc_id) ==
    [job EXCEPT !.status = "completed", !.document_id = doc_id]

\* faulty variant: a failed job is put back to pending
MarkRequeued(job, error) == [job EXCEPT !.status = "pending", !.error = error]

\* job.status = "failed"; job.error = str(exc)
MarkFailed(job, error) == [job EXCEPT !.status = "failed", !.error = error]

\* doc.id of the Document row run_pipeline builds for upload u
DocumentIdOf(u) == "doc-" \o u

\* Document(file_hash=file_hash, s3_key=s3_key, ..., status="completed")
IngestedDocument(u) ==
    [Doc(DocumentIdOf(u), Null, Null, Null, Null, "completed") EXCEPT
        !.file_hash = upload[u].file_hash,
        !.s3_key = "s3/" \o upload[u].file_hash \o "/" \o upload[u].filename]

\* chunk_rows: one Chunk row per non-empty page
ChunkRows(u) ==
    { Chunk(u \o "/" \o PageIds[n], DocumentIdOf(u), n, Null, 100, 1) :
        n \in upload[u].chunk_pages }

\* the ids of the stored documents of u's tenant with u's bytes, u's own aside
StoredDuplicates(u) ==
    { d.id : d \in { x \in documents[SchemaOf(u)] :
                        x.file_hash = upload[u].file_hash /\ x.id # DocumentIdOf(u) } }

\* the Document rows other sessions on the schema have flushed and not committed
UncommittedRows(u) ==
    UNION { upload[v].tx_docs :
              v \in { w \in Uploads \ {u} : upload[w].tenant = upload[u].tenant } }

crag == <<tavily_api_key, requests, pc, tenant, provider, state, local, trace,
          calls, result>>

IngestInit ==
    /\ Idle
    /\ tavily_api_key = "tvly-key"
    /\ requests = [i \in Invocations |-> {}]

\* an exception inside the try block of run_pipeline
Raise(u, error) ==
    upload' = [upload EXCEPT ![u].pc = "except", ![u].error = error]

\* upload_document up to the duplicate check: 400 for a file that is not a
\* PDF or is empty
UploadDocument(u) ==
    /\ upload[u].pc = "idle"
    /\ \E t \in UploadTenants, filename \in Filenames, pdf_bytes \in PdfBytes :
        IF ~IsPdfName(filename) \/ pdf_bytes = ""
        THEN upload' = [upload EXCEPT ![u].pc = "responded",
                                      ![u].response = [NoResponse EXCEPT !.code = 400]]
        ELSE upload' = [upload EXCEPT ![u].pc = "upload_check",
                                      ![u].tenant = t,
                                      ![u].filename = filename,
                                      ![u].pdf_bytes = pdf_bytes,
                                      ![u].file_hash = ComputeHash(pdf_bytes)]
    /\ UNCHANGED <<documents, chunks, ingest_jobs, crag>>

\* the fast duplicate check of upload_document
UploadFindExisting(u) ==
    /\ upload[u].pc = "upload_check"
    /\ \E existing_id \in FindExisting(upload[u].file_hash, documents[SchemaOf(u)]) :
        IF existing_id # Null
        THEN upload' = [upload EXCEPT ![u].pc = "responded",
                                      ![u].response =
                                          [code |-> 202, job_id |-> Null,
                                           status |-> "completed",
                                           document_id |-> existing_id]]
        ELSE upload' = [upload EXCEPT ![u].pc = "upload_insert"]
    /\ UNCHANGED <<documents, chunks, ingest_jobs, crag>>

\* the job row is committed, run_pipeline is added to the background tasks
\* and the response is sent
UploadCreateJob(u) ==
    /\ upload[u].pc = "upload_insert"
    /\ ingest_jobs' = [ingest_jobs EXCEPT ![SchemaOf(u)] = @ \cup {IngestJob(u)}]
    /\ upload' = [upload EXCEPT ![u].pc = "scheduled",
                                ![u].job_id = u,
                                ![u].response =
                                    [code |-> 202, job_id |-> u, status |-> "pending",
                                     document_id |-> Null]]
    /\ UNCHANGED <<documents, chunks, crag>>

\* run_pipeline starts: _update_job("processing")
RunPipeline(u) ==
    /\ upload[u].pc = "scheduled"
    /\ ingest_jobs' = [ingest_jobs EXCEPT ![SchemaOf(u)] =
                          ReplaceJob(@, MarkProcessing(JobRow(SchemaOf(u), u)))]
    /\ upload' = [upload EXCEPT ![u].pc = "dedup"]
    /\ UNCHANGED <<documents, chunks, crag>>

\* the second duplicate check, and the early return for a duplicate
PipelineFindExisting(u) ==
    /\ upload[u].pc = "dedup"
    /\ \E existing_id \in FindExisting(upload[u].file_hash, documents[SchemaOf(u)]) :
        IF existing_id # Null
        THEN /\ ingest_jobs' = [ingest_jobs EXCEPT ![SchemaOf(u)] =
                   ReplaceJob(@, MarkDuplicate(JobRow(SchemaOf(u), u), existing_id))]
             /\ upload' = [upload EXCEPT ![u].pc = "done",
                                         ![u].duplicates_at_end = StoredDuplicates(u)]
        ELSE /\ upload' = [upload EXCEPT ![u].pc = "s3"]
             /\ UNCHANGED ingest_jobs
    /\ UNCHANGED <<documents, chunks, crag>>

\* the S3 upload, skipped in development, or RuntimeError
S3Upload(u) ==
    /\ upload[u].pc = "s3"
    /\ \/ upload' = [upload EXCEPT ![u].pc = "extract"]
       \/ Raise(u, "S3 upload failed")
    /\ UNCHANGED <<documents, chunks, ingest_jobs, crag>>

\* extract_pages, parse and chunk_pages: some pages, a chunk for each page
\* that is not empty
ExtractPages(u) ==
    /\ upload[u].pc = "extract"
    /\ \/ \E pages \in 0..MaxPages :
            \E chunk_pages \in SUBSET (1..pages) :
                upload' = [upload EXCEPT ![u].pc = "embed",
                                         ![u].pages = pages,
                                         ![u].chunk_pages = chunk_pages]
       \/ Raise(u, "extract_pages failed")
    /\ UNCHANGED <<documents, chunks, ingest_jobs, crag>>

\* embed_chunks
EmbedChunks(u) ==
    /\ upload[u].pc = "embed"
    /\ \/ upload' = [upload EXCEPT ![u].pc = "flush"]
       \/ Raise(u, "embed_batch failed")
    /\ UNCHANGED <<documents, chunks, ingest_jobs, crag>>

\* ts.add(doc); await ts.flush(): the INSERT waits for a session that has
\* flushed the same hash, and fails on a stored row with that hash
FlushDocument(u) ==
    /\ upload[u].pc = "flush"
    /\ ~Conflicts(UncommittedRows(u), upload[u].file_hash)
    /\ IF Conflicts(documents[SchemaOf(u)], upload[u].file_hash)
       THEN Raise(u, "IntegrityError")
       ELSE upload' = [upload EXCEPT ![u].pc = "commit",
                                     ![u].tx_docs = {IngestedDocument(u)}]
    /\ UNCHANGED <<documents, chunks, ingest_jobs, crag>>

\* faulty variant: the chunk rows are not part of the commit
CommitIngestWithoutChunks(u) ==
    /\ upload[u].pc = "commit"
    /\ documents' = [documents EXCEPT ![SchemaOf(u)] = @ \cup upload[u].tx_docs]
    /\ ingest_jobs' = [ingest_jobs EXCEPT ![SchemaOf(u)] =
                          ReplaceJob(@, MarkCompleted(JobRow(SchemaOf(u), u), DocumentIdOf(u)))]
    /\ upload' = [upload EXCEPT ![u].pc = "done", ![u].tx_docs = {},
                                ![u].duplicates_at_end = StoredDuplicates(u)]
    /\ UNCHANGED <<chunks, crag>>

\* ts.add_all(chunk_rows), the job set to completed, await ts.commit()
CommitIngest(u) ==
    /\ upload[u].pc = "commit"
    /\ documents' = [documents EXCEPT ![SchemaOf(u)] = @ \cup upload[u].tx_docs]
    /\ chunks' = [chunks EXCEPT ![SchemaOf(u)] = @ \cup ChunkRows(u)]
    /\ ingest_jobs' = [ingest_jobs EXCEPT ![SchemaOf(u)] =
                          ReplaceJob(@, MarkCompleted(JobRow(SchemaOf(u), u), DocumentIdOf(u)))]
    /\ upload' = [upload EXCEPT ![u].pc = "done", ![u].tx_docs = {},
                                ![u].duplicates_at_end = StoredDuplicates(u)]
    /\ UNCHANGED crag

\* except Exception: ts.rollback(), then the job is set to failed in a new session
HandleException(u) ==
    /\ upload[u].pc = "except"
    /\ ingest_jobs' = [ingest_jobs EXCEPT ![SchemaOf(u)] =
                          ReplaceJob(@, MarkFailed(JobRow(SchemaOf(u), u), upload[u].error))]
    /\ upload' = [upload EXCEPT ![u].pc = "done", ![u].tx_docs = {},
                                ![u].duplicates_at_end = StoredDuplicates(u)]
    /\ UNCHANGED <<documents, chunks, crag>>

IngestNext ==
    \E u \in Uploads :
        \/ UploadDocument(u)
        \/ UploadFindExisting(u)
        \/ UploadCreateJob(u)
        \/ RunPipeline(u)
        \/ PipelineFindExisting(u)
        \/ S3Upload(u)
        \/ ExtractPages(u)
        \/ EmbedChunks(u)
        \/ FlushDocument(u)
        \/ CommitIngest(u)
        \/ HandleException(u)

IngestSpec == IngestInit /\ [][IngestNext]_vars

\* the steps of the background task of upload u
PipelineStep(u) ==
    \/ RunPipeline(u)
    \/ PipelineFindExisting(u)
    \/ S3Upload(u)
    \/ ExtractPages(u)
    \/ EmbedChunks(u)
    \/ FlushDocument(u)
    \/ CommitIngest(u)
    \/ HandleException(u)

\* a started background task is resumed whenever its awaited call has
\* completed, and every awaited call returns or raises
FairIngestSpec ==
    IngestInit /\ [][IngestNext]_vars /\ \A u \in Uploads : WF_vars(PipelineStep(u))

-----------------------------------------------------------------------------
(* Properties *)

LastNode(i) == IF trace[i] = <<>> THEN "" ELSE trace[i][Len(trace[i])]

\* grade_node is the node that ran last, and it has returned
JustGraded(i) == LastNode(i) = "grade"

Ran(i, node) == node \in Range(trace[i])

IsPrefix(s, t) == Len(s) <= Len(t) /\ s = SubSeq(t, 1, Len(s))

VectorSequence == <<"retrieve", "grade", "generate">>

FallbackSequence == <<"retrieve", "grade", "rewrite", "web_search", "generate">>

\* failures of the collaborators: a model call that raises, a web search that
\* raises, no web-search API key configured
ExternalFailures == {"generate", "tavily", "ValueError", "embed", "storage"}

\* C1: no passage that search or retrieve returns has a document type in the
\* tenant's restricted_doc_types, whatever filters were extracted; with a
\* doc_type filter naming a restricted type the result is empty.
C1_RestrictedNeverReturned ==
    \A i \in Invocations :
        LET restricted == Range(TenantRow(tenant[i]).config.restricted_doc_types)
        IN  /\ \A p \in Range(local[i].candidates) \cup Range(state[i].retrieved_docs) :
                 p.doc_type \notin restricted
            /\ (pc[i] = "rank" /\ local[i].filters.doc_type \in restricted)
                 => local[i].candidates = <<>>

\* search has returned for the tenant that restricts ENG-MAT, under a filter
\* that asks for ENG-MAT
C1_Witness ==
    \E i \in Invocations :
        /\ pc[i] = "rank"
        /\ tenant[i] = "ea"
        /\ local[i].filters.doc_type = "ENG-MAT"
        /\ local[i].candidates = <<>>

\* the passage is a chunk of a document, both rows of the schema of i's tenant
OwnSchema(i, p) ==
    LET schema == TenantRow(tenant[i]).schema_name
    IN  /\ \E d \in documents[schema] : d.id = p.document_id
        /\ \E c \in chunks[schema] : c.id = p.chunk_id /\ c.document_id = p.document_id

\* C2: with invocations of different tenants interleaved in any way, every
\* passage an invocation holds, and every citation it returns, comes from its
\* own tenant's schema.
C2_NoCrossTenantRead ==
    \A i \in Invocations :
        /\ \A p \in Range(local[i].candidates) \cup Range(state[i].retrieved_docs) :
             OwnSchema(i, p)
        /\ \A src \in Range(state[i].sources) \cup Range(result[i].sources) :
             \E d \in documents[TenantRow(tenant[i]).schema_name] : d.s3_key = src.s3_key

\* both invocations, of different tenants, are between search and ranking,
\* each holding passages
C2_Witness ==
    /\ tenant["r1"] # tenant["r2"]
    /\ \A i \in Invocations : pc[i] = "rank" /\ local[i].candidates # <<>>

\* a reply the validation cannot turn into a GradeDecision: the call raised,
\* the text is not a JSON object, is_relevant is absent, or it is neither a
\* boolean nor a value that spells one (0, 1, "true", "false", "yes", ...)
C3_Unparsable(r) ==
    \/ r.raises
    \/ r.syntax # "object"
    \/ r.is_relevant.t \in {"missing", "null", "array"}
    \/ r.is_relevant.t = "num" /\ r.is_relevant.v \notin {"0", "1"}
    \/ r.is_relevant.t = "str" /\ r.is_relevant.v \notin BoolStringsTrue \cup BoolStringsFalse

C4_EmptyListIrrelevant ==
    \A i \in Invocations :
        (JustGraded(i) /\ state[i].retrieved_docs = <<>>)
        => /\ ~state[i].is_relevant
           /\ calls[i].grade = 0
           /\ pc[i] = "rewrite"

\* grade has returned on an empty passage list
C4_Witness ==
    \E i \in Invocations :
        /\ JustGraded(i)
        /\ state[i].retrieved_docs = <<>>
        /\ ~state[i].is_relevant
        /\ calls[i].grade = 0

\* C5: once grade has yielded is_relevant = true, the nodes that run are
\* retrieve, grade, generate, in this order; rewrite and web_search never run.
C5_RelevantGoesToGenerate ==
    \A i \in Invocations :
        (Ran(i, "grade") /\ state[i].is_relevant)
        => /\ ~Ran(i, "rewrite") /\ ~Ran(i, "web_search")
           /\ \/ pc[i] = "generate" /\ trace[i] = SubSeq(VectorSequence, 1, 2)
              \/ pc[i] \in {"END", "failed"} /\ trace[i] = VectorSequence

\* an invocation graded relevant has returned
C5_Witness ==
    \E i \in Invocations :
        /\ pc[i] = "END"
        /\ state[i].is_relevant
        /\ trace[i] = VectorSequence
        /\ result[i].returned

\* C6: once grade has yielded is_relevant = false, the nodes run in the order
\* retrieve, grade, rewrite, web_search, generate; the run stops short of
\* generate only when a collaborator fails, and an invocation that returns
\* has run all five.
C6_FallbackSequence ==
    \A i \in Invocations :
        (Ran(i, "grade") /\ ~state[i].is_relevant)
        => /\ IsPrefix(trace[i], FallbackSequence)
           /\ pc[i] = "END" => trace[i] = FallbackSequence
           /\ pc[i] = "failed" => local[i].error \in ExternalFailures

\* C7: every node runs at most once in an invocation, and neither retrieve
\* nor grade runs after rewrite or web_search.
C7_NoLoop ==
    \A i \in Invocations :
        /\ \A j, k \in 1..Len(trace[i]) : j # k => trace[i][j] # trace[i][k]
        /\ \A j, k \in 1..Len(trace[i]) :
             (j < k /\ trace[i][j] \in {"rewrite", "web_search"})
             => trace[i][k] \notin {"retrieve", "grade"}

\* an invocation has run all five nodes
C7_Witness ==
    \E i \in Invocations : pc[i] = "END" /\ trace[i] = FallbackSequence

\* C8: when retrieve returns no passage, grade calls no model, rewrite,
\* web_search and generate run in this order unless a collaborator fails, and
\* the invocation that returns has an empty citation list.
C8_ZeroPassagesScenario ==
    \A i \in Invocations :
        (Ran(i, "grade") /\ state[i].retrieved_docs = <<>>)
        => /\ calls[i].grade = 0
           /\ IsPrefix(trace[i], FallbackSequence)
           /\ pc[i] = "failed" => local[i].error \in ExternalFailures
           /\ pc[i] = "END" => /\ trace[i] = FallbackSequence
                               /\ result[i].returned
                               /\ result[i].sources = <<>>

\* generate_node has returned on the web branch
WebBranchDone(i) ==
    /\ LastNode(i) = "generate"
    /\ pc[i] = "END"
    /\ ~(state[i].is_relevant /\ state[i].retrieved_docs # <<>>)

\* C9: an answer generated on the web branch (is_relevant false, or no
\* passages) has an empty citation list and comes from one model call on the
\* web text, also when passages and web text are both empty.
C9_WebPathNoCitations ==
    \A i \in Invocations :
        WebBranchDone(i)
        => /\ state[i].sources = <<>>
           /\ result[i].returned /\ result[i].sources = <<>>
           /\ result[i].answer = state[i].answer
           /\ calls[i].generate = 1
           /\ local[i].context.path = "web"
           /\ local[i].context.web = state[i].web_results
           /\ local[i].context.nothing_found = (state[i].web_results = EmptyText)

\* an answer was generated with no passages and no web text
C9_Witness ==
    \E i \in Invocations :
        /\ WebBranchDone(i)
        /\ state[i].retrieved_docs = <<>>
        /\ state[i].web_results = EmptyText
        /\ result[i].returned
        /\ calls[i].generate = 1

\* generate_node has returned on the vector branch
VectorBranchDone(i) ==
    /\ LastNode(i) = "generate"
    /\ pc[i] = "END"
    /\ state[i].is_relevant /\ state[i].retrieved_docs # <<>>

\* C10: on the vector branch the k-th citation belongs to the passage shown
\* as block [k] of the context: it carries that passage's document number,
\* title, page number and storage locator, and the citations follow the
\* order of the blocks.
C10_CitationsMatchBlocks ==
    \A i \in Invocations :
        VectorBranchDone(i)
        => LET parts == local[i].context.parts
               docs == state[i].retrieved_docs
               sources == state[i].sources
           IN  /\ result[i].sources = sources
               /\ Len(sources) <= Len(parts)
               /\ \A k \in 1..Len(sources) :
                    /\ parts[k].index = k
                    /\ parts[k].chunk_id = docs[k].chunk_id
                    /\ sources[k].doc_number = docs[k].doc_number
                    /\ sources[k].title = docs[k].title
                    /\ sources[k].page_number = docs[k].page_number
                    /\ sources[k].s3_key = docs[k].s3_key

\* two whole blocks and a cut third one, with the citations of the first two
C10_Witness ==
    \E i \in Invocations :
        /\ VectorBranchDone(i)
        /\ Len(state[i].sources) = 2
        /\ Len(local[i].context.parts) = 3
        /\ local[i].context.parts[3].truncated

\* C11: on the vector branch there are as many citations as blocks in the
\* context, the cut block included.
C11_CitationPerBlock ==
    \A i \in Invocations :
        VectorBranchDone(i)
        => Len(state[i].sources) = Len(local[i].context.parts)

\* C12: the context string of the vector branch is never longer than the
\* budget plus one truncation marker.
C12_ContextWithinBudget ==
    \A i \in Invocations :
        VectorBranchDone(i)
        => ContextLen(local[i].context.parts) <= _MAX_CONTEXT_CHARS + TruncationMarkerLen

\* the text without one layer of enclosing quotes, when it starts and ends
\* with the same quote character
OneLayerUnquoted(s) ==
    IF Len(s) >= 2 /\ s[1] = s[Len(s)] /\ s[1] \in {DQ, SQ}
    THEN SubSeq(s, 2, Len(s) - 1)
    ELSE s

\* C13: the rewritten query is the model output with surrounding whitespace
\* trimmed and, when it starts and ends with matching quote characters,
\* exactly one layer of them removed.
C13_StripsOneQuoteLayer ==
    \A i \in Invocations :
        (LastNode(i) = "rewrite" /\ pc[i] = "web_search")
        => state[i].rewritten_query
             = OneLayerUnquoted(Strip(local[i].rewrite_reply, Whitespace))

\* C14: when web_search is reached with no API key configured, it raises a
\* configuration error before any search request is made; no web text is
\* stored, generate does not run and the invocation returns nothing.
C14_MissingKeyFatal ==
    \A i \in Invocations :
        (Ran(i, "web_search") /\ tavily_api_key = "")
        => /\ pc[i] = "failed"
           /\ local[i].error = "ValueError"
           /\ calls[i].web_search = 0
           /\ state[i].web_results = EmptyText
           /\ ~Ran(i, "generate")
           /\ calls[i].generate = 0
           /\ result[i] = NoResult

\* the invocation has failed in web_search for want of a key
C14_Witness ==
    \E i \in Invocations :
        /\ tavily_api_key = ""
        /\ trace[i] = SubSeq(FallbackSequence, 1, 4)
        /\ pc[i] = "failed"
        /\ local[i].error = "ValueError"

\* what a failed invocation leaves: nothing returned, no answer, no citation
NothingReturned(i) ==
    /\ result[i] = NoResult
    /\ state[i].answer = InitialState(state[i].query).answer
    /\ state[i].sources = <<>>

\* C15: a failure of the rewrite model call, of the generate model call or of
\* the storage query ends the invocation as failed: no fallback value takes
\* its place, nothing is returned, and no node runs afterwards.
C15_HardFailurePropagates ==
    /\ [](\A i \in Invocations :
            local[i].error \in {"generate", "storage"}
            => /\ pc[i] = "failed"
               /\ NothingReturned(i)
               /\ local[i].error = "storage"
                    => /\ trace[i] = <<"retrieve">>
                       /\ state[i].retrieved_docs = <<>>
                       /\ calls[i].grade = 0
               /\ local[i].error = "generate"
                    => /\ LastNode(i) \in {"rewrite", "generate"}
                       /\ LastNode(i) = "rewrite"
                            => /\ state[i].rewritten_query = <<>>
                               /\ calls[i].web_search = 0
                               /\ calls[i].generate = 0)
    /\ [][\A i \in Invocations :
            pc[i] = "failed"
            => /\ pc'[i] = "failed"
               /\ trace'[i] = trace[i]
               /\ state'[i] = state[i]
               /\ result'[i] = result[i]]_vars

\* the generate model call failed on the vector branch
C15_Witness ==
    \E i \in Invocations :
        /\ pc[i] = "failed"
        /\ local[i].error = "generate"
        /\ trace[i] = VectorSequence
        /\ state[i].retrieved_docs # <<>>
        /\ NothingReturned(i)

\* the filter-extraction call raised, or what it returned is not the text of
\* a JSON object with string-or-null fields
FilterUnparsable(i) ==
    LET r == local[i].filter_reply
    IN  \/ r.raises
        \/ GenerateReturns(provider[i]) # "str"
        \/ r.syntax # "object"
        \/ \E j \in {r.doc_type, r.doc_number, r.classification} :
             j.t \notin {"missing", "null", "str"}

\* the chunks of completed documents of i's tenant whose type is not
\* restricted: what a search with no filter finds
UnfilteredChunkIds(i) ==
    LET schema == TenantRow(tenant[i]).schema_name
        restricted == RestrictedDocTypes(tenant[i])
    IN  { c.id : c \in { x \in chunks[schema] :
            \E d \in documents[schema] :
                /\ d.id = x.document_id
                /\ d.status = "completed"
                /\ restricted # <<>>
                     => d.doc_type # Null /\ d.doc_type \notin Range(restricted) } }

\* C16: when the filter-extraction call fails or its output cannot be
\* parsed, extract returns the empty filter set without raising, and the
\* search that follows is constrained by the completed-status and
\* restricted-type predicates only.
C16_ExtractFallsBackToNoFilters ==
    \A i \in Invocations :
        ("extract" \in local[i].done /\ FilterUnparsable(i))
        => /\ local[i].filters = EmptyFilters
           /\ pc[i] = "failed" => local[i].error \in {"embed", "storage"}
           /\ pc[i] = "rank"
                => { p.chunk_id : p \in Range(local[i].candidates) } = UnfilteredChunkIds(i)

\* search has returned both of the tenant's chunks after a reply that names
\* a document type but does not validate
C16_Witness ==
    \E i \in Invocations :
        /\ pc[i] = "rank"
        /\ tenant[i] = "acme"
        /\ provider[i] = "TextProvider"
        /\ local[i].filter_reply = FilterReply(FALSE, "object", JStr("SOP"), JNum("7"), JNull)
        /\ local[i].filters = EmptyFilters
        /\ Len(local[i].candidates) = 2

\* the keyword call raised, or what it returned is not the text of a JSON
\* object with a list of 1 to 10 strings under "keywords"
KeywordUnparsable(i) ==
    LET r == local[i].keyword_reply
    IN  \/ r.raises
        \/ GenerateReturns(provider[i]) # "str"
        \/ r.syntax # "object"
        \/ ~r.listed
        \/ Len(r.keywords) < 1
        \/ Len(r.keywords) > 10

\* kw is the first five of tokens, or all of them when there are fewer
FirstFive(kw, tokens) ==
    /\ Len(kw) = (IF Len(tokens) >= 5 THEN 5 ELSE Len(tokens))
    /\ \A j \in 1..Len(kw) : kw[j] = tokens[j]

\* C17 (amended): when the keyword call fails or its output cannot be parsed
\* or validated, the keywords are the first five (or all, when fewer)
\* whitespace-separated tokens of the lower-cased query, and retrieve goes on.
C17_KeywordFallback ==
    \A i \in Invocations :
        ("keywords" \in local[i].done /\ KeywordUnparsable(i))
        => /\ FirstFive(local[i].keywords, Split(Lower(state[i].query)))
           /\ pc[i] = "failed" => local[i].error \in {"embed", "storage"}

\* the fallback has cut a query of six tokens to five keywords
C17_Witness ==
    \E i \in Invocations :
        /\ "keywords" \in local[i].done
        /\ provider[i] = "TextProvider"
        /\ local[i].keyword_reply.syntax = "invalid"
        /\ Len(Split(state[i].query)) = 6
        /\ Len(local[i].keywords) = 5

\* C17 as stated: the fallback keywords are tokens of the query as given
C17_KeywordFallbackVerbatim ==
    \A i \in Invocations :
        ("keywords" \in local[i].done /\ KeywordUnparsable(i))
        => FirstFive(local[i].keywords, Split(state[i].query))

\* C18: when the embedding call of the fan-out fails, retrieve fails: the
\* search is never issued, nothing is ranked, no passage is returned, also
\* when filter extraction and keyword generation had succeeded.
C18_EmbedFailurePropagates ==
    \A i \in Invocations :
        local[i].error = "embed"
        => /\ pc[i] = "failed"
           /\ trace[i] = <<"retrieve">>
           /\ calls[i].search = 0
           /\ local[i].candidates = <<>>
           /\ state[i].retrieved_docs = <<>>
           /\ NothingReturned(i)

\* the embedding failed after the other two operations had returned filters
\* and keywords taken from the model's replies
C18_Witness ==
    \E i \in Invocations :
        /\ local[i].error = "embed"
        /\ pc[i] = "failed"
        /\ local[i].done = {"extract", "keywords"}
        /\ local[i].filters.doc_type = "SOP"
        /\ local[i].keywords = local[i].keyword_reply.keywords
        /\ local[i].keywords # <<>>

\* C19: the three operations of the fan-out are in flight together and
\* complete in any order; the search is issued only when all three have
\* completed, and ranking happens only on what the search returned.
C19_FanOutThenJoin ==
    \A i \in Invocations :
        /\ pc[i] = "gather"
             => /\ local[i].done \subseteq {"extract", "keywords", "embed"}
                /\ calls[i].extract = (IF "extract" \in local[i].done THEN 1 ELSE 0)
                /\ calls[i].keywords = (IF "keywords" \in local[i].done THEN 1 ELSE 0)
                /\ calls[i].embed = (IF "embed" \in local[i].done THEN 1 ELSE 0)
                /\ calls[i].search = 0
                /\ local[i].candidates = <<>>
                /\ state[i].retrieved_docs = <<>>
        /\ (pc[i] = "rank" \/ calls[i].search > 0)
             => /\ local[i].done \in {{}, {"extract", "keywords", "embed"}}
                /\ pc[i] = "rank" => local[i].done = {"extract", "keywords", "embed"}
                /\ calls[i].extract = 1 /\ calls[i].keywords = 1 /\ calls[i].embed = 1
                /\ calls[i].search = 1
        /\ state[i].retrieved_docs # <<>> => calls[i].search = 1

\* the embedding, handed to gather last, has completed while filter
\* extraction and keyword generation are still in flight
C19_Witness ==
    \E i \in Invocations :
        /\ pc[i] = "gather"
        /\ local[i].done = {"embed"}
        /\ calls[i].extract = 0
        /\ calls[i].keywords = 0

\* C20: rank with no keywords returns the first k candidates, unchanged and
\* in their order; rank of no candidates returns the empty list.
C20_NoKeywordsKeepsOrder ==
    \A i \in Invocations :
        pc[i] = "ranked"
        => LET candidates == local[i].candidates
               k == local[i].k
               docs == state[i].retrieved_docs
           IN  /\ candidates = <<>> => docs = <<>>
               /\ local[i].keywords = <<>>
                    => /\ Len(docs) = (IF k <= Len(candidates) THEN k ELSE Len(candidates))
                       /\ \A j \in 1..Len(docs) : docs[j] = candidates[j]

\* rank has returned two of three candidates, with no keywords
C20_Witness ==
    \E i \in Invocations :
        /\ pc[i] = "ranked"
        /\ local[i].keywords = <<>>
        /\ Len(local[i].candidates) = 3
        /\ local[i].k = 2
        /\ Len(state[i].retrieved_docs) = 2

\* the position of passage p in the candidate list of i (passages are distinct)
Pos(i, p) == CHOOSE m \in 1..Len(local[i].candidates) : local[i].candidates[m] = p

\* candidate m comes before candidate n in the ranking: higher score, or the
\* same score and earlier in the vector-similarity order
RanksBefore(i, m, n) ==
    \/ local[i].scores[m] > local[i].scores[n]
    \/ local[i].scores[m] = local[i].scores[n] /\ m < n

\* C21: with keywords and candidates, rank returns min(k, n) of the
\* candidates, each at most once and unmodified, those of highest score, in
\* descending score order with ties in their original order.
C21_TopKByScoreStable ==
    \A i \in Invocations :
        (pc[i] = "ranked" /\ local[i].keywords # <<>> /\ local[i].candidates # <<>>)
        => LET candidates == local[i].candidates
               k == local[i].k
               docs == state[i].retrieved_docs
           IN  /\ Len(docs) = (IF k <= Len(candidates) THEN k ELSE Len(candidates))
               /\ \A j \in 1..Len(docs) : docs[j] \in Range(candidates)
               /\ \A j, l \in 1..Len(docs) :
                    j < l => /\ docs[j] # docs[l]
                             /\ RanksBefore(i, Pos(i, docs[j]), Pos(i, docs[l]))
               /\ \A m \in 1..Len(candidates) :
                    candidates[m] \notin Range(docs)
                    => \A j \in 1..Len(docs) : RanksBefore(i, Pos(i, docs[j]), m)

\* of three candidates scored low, high, high, rank has returned the second
\* and the third, in this order
C21_Witness ==
    \E i \in Invocations :
        /\ pc[i] = "ranked"
        /\ local[i].keywords # <<>>
        /\ Len(local[i].candidates) = 3
        /\ local[i].k = 2
        /\ local[i].scores[1] < local[i].scores[2]
        /\ local[i].scores[2] = local[i].scores[3]
        /\ state[i].retrieved_docs = SubSeq(local[i].candidates, 2, 3)

\* the filter field is present: not None and not the empty string
Present(f) == f # Null /\ f # ""

\* document d passes the filters of i: completed, equal to every present
\* filter field, and not of a restricted type
Eligible(i, d) ==
    LET f == local[i].filters
        restricted == RestrictedDocTypes(tenant[i])
    IN  /\ d.status = "completed"
        /\ Present(f.doc_type) => d.doc_type = f.doc_type
        /\ Present(f.doc_number) => d.doc_number = f.doc_number
        /\ Present(f.classification) => d.classification = f.classification
        /\ restricted # <<>> => d.doc_type # Null /\ d.doc_type \notin Range(restricted)

\* C22: every passage the search returns is a chunk of a completed document
\* that equals the filters in every field that is present; an absent field
\* excludes nothing, so every chunk of such a document is returned.
C22_FiltersByEquality ==
    \A i \in Invocations :
        pc[i] = "rank"
        => LET schema == TenantRow(tenant[i]).schema_name
           IN  /\ \A p \in Range(local[i].candidates) :
                    \E d \in documents[schema] : d.id = p.document_id /\ Eligible(i, d)
               /\ \A c \in chunks[schema] :
                    (\E d \in documents[schema] : d.id = c.document_id /\ Eligible(i, d))
                    => \E p \in Range(local[i].candidates) : p.chunk_id = c.id

\* a filter on the document type alone has kept one of the tenant's two chunks
C22_Witness ==
    \E i \in Invocations :
        /\ pc[i] = "rank"
        /\ tenant[i] = "acme"
        /\ local[i].filters = [doc_type |-> "SOP", doc_number |-> Null, classification |-> Null]
        /\ Len(local[i].candidates) = 1
        /\ local[i].candidates[1].chunk_id = "cB2"

\* the chunks of i's tenant whose document passes i's filters
EligibleChunks(i) ==
    LET schema == TenantRow(tenant[i]).schema_name
    IN  { c \in chunks[schema] :
            \E d \in documents[schema] : d.id = c.document_id /\ Eligible(i, d) }

\* C23: search returns min(fetch_k, number of eligible chunks) distinct
\* eligible chunks, in ascending distance, none farther than an eligible
\* chunk left out; with no eligible chunk it returns the empty list.
C23_NearestFirstAtMostFetchK ==
    \A i \in Invocations :
        pc[i] = "searched"
        => LET rows == local[i].candidates
               eligible == EligibleChunks(i)
               n == Cardinality(eligible)
           IN  /\ Len(rows) = (IF local[i].fetch_k <= n THEN local[i].fetch_k ELSE n)
               /\ \A j \in 1..Len(rows) :
                    \E c \in eligible : c.id = rows[j].chunk_id /\ c.dist = rows[j].similarity_score
               /\ \A j, l \in 1..Len(rows) :
                    j < l => /\ rows[j].chunk_id # rows[l].chunk_id
                             /\ rows[j].similarity_score <= rows[l].similarity_score
               /\ \A c \in eligible :
                    (\A j \in 1..Len(rows) : rows[j].chunk_id # c.id)
                    => \A j \in 1..Len(rows) : rows[j].similarity_score <= c.dist
               /\ eligible = {} => rows = <<>>

\* five chunks are eligible and the three nearest were returned
C23_Witness ==
    \E i \in Invocations :
        /\ pc[i] = "searched"
        /\ Cardinality(EligibleChunks(i)) = 5
        /\ local[i].fetch_k = 3
        /\ Len(local[i].candidates) = 3
        /\ local[i].candidates[1].chunk_id = "cB4"

\* the grading reply is the text of a JSON object with a boolean is_relevant
\* and, if any, a string reasoning
WellFormedVerdict(r) ==
    /\ ~r.raises
    /\ r.syntax = "object"
    /\ r.is_relevant.t = "bool"
    /\ r.reasoning.t \in {"missing", "str"}

\* C24: for a non-empty passage list and a well-formed grading object from
\* the backend, grade returns that object's is_relevant: false leads to
\* rewrite, true to generate.
C24_GradeReturnsVerdict ==
    \A i \in Invocations :
        ( /\ JustGraded(i)
          /\ state[i].retrieved_docs # <<>>
          /\ calls[i].grade = 1
          /\ WellFormedVerdict(local[i].grade_reply) )
        => /\ state[i].is_relevant = (local[i].grade_reply.is_relevant.v = "true")
           /\ pc[i] = (IF local[i].grade_reply.is_relevant.v = "true"
                       THEN "generate" ELSE "rewrite")

\* the language-model calls of invocation i
ModelCalls(i) ==
    calls[i].extract + calls[i].keywords + calls[i].grade
      + calls[i].rewrite + calls[i].generate

\* C25: when the backend reports usage, run_crag returns a usage record with
\* the sums of the input and output tokens of the invocation's model calls
\* and their total; usage is absent only when the backend reports none.
C25_UsageIsSummed ==
    \A i \in Invocations :
        result[i].returned
        => LET u == UsagePerCall(provider[i])
           IN  IF ~u.reported THEN result[i].usage = Null
               ELSE /\ result[i].usage # Null
                    /\ result[i].usage
                         = [input_tokens |-> ModelCalls(i) * u.input_tokens,
                            output_tokens |-> ModelCalls(i) * u.output_tokens,
                            total_tokens |-> ModelCalls(i) * (u.input_tokens + u.output_tokens)]

\* what retrieve takes k to be: the caller's k, or the default for None and 0
EffectiveK(i) ==
    IF local[i].k_arg = NoK \/ local[i].k_arg = <<0>> THEN 5 ELSE local[i].k_arg[1]

Searched(i) == pc[i] \in {"rank", "retrieved"}

\* C26: for every k of the caller that is not 0, and for the default k = 5
\* when k is None or 0, retrieve asks the vector search once for exactly
\* k * 20 candidates (100 by default) and returns at most k passages, all of
\* them candidates of that search.
C26_FetchKAndAtMostK ==
    \A i \in Invocations :
        /\ Searched(i)
           => /\ calls[i].search = 1
              /\ local[i].k = EffectiveK(i)
              /\ local[i].fetch_k = EffectiveK(i) * 20
              /\ Len(local[i].candidates) <= local[i].fetch_k
        /\ pc[i] = "retrieved"
           => /\ Len(state[i].retrieved_docs) <= EffectiveK(i)
              /\ \A n \in 1..Len(state[i].retrieved_docs) :
                    \E m \in 1..Len(local[i].candidates) :
                        local[i].candidates[m] = state[i].retrieved_docs[n]

\* the caller's k cut the list: two candidates, k = 1, one passage returned
C26_Witness ==
    \E i \in Invocations :
        /\ pc[i] = "retrieved"
        /\ local[i].k_arg = <<1>>
        /\ local[i].fetch_k = 20
        /\ Len(local[i].candidates) = 2
        /\ Len(state[i].retrieved_docs) = 1

\* C26 as stated: for every k of the caller, fetch_k = k * 20 and at most k
\* passages are returned.
C26_EveryCallerK ==
    \A i \in Invocations :
        (local[i].k_arg # NoK)
        => /\ Searched(i) => local[i].fetch_k = local[i].k_arg[1] * 20
           /\ pc[i] = "retrieved"
              => Len(state[i].retrieved_docs) <= local[i].k_arg[1]

\* the web search was called, whether it returned or raised
WebSearchIssued(i) == Ran(i, "web_search") /\ calls[i].web_search = 1

\* C27: the rewritten query the web search finds in the state is what the
\* rewrite step of the same invocation made of the model's text, and the web
\* search is issued with it when it is not empty, with the original query
\* when it is empty.
C27_WebSearchUsesRewrittenQuery ==
    \A i \in Invocations :
        /\ pc[i] = "web_search"
           => state[i].rewritten_query = StripRewritten(local[i].rewrite_reply)
        /\ WebSearchIssued(i)
           => /\ state[i].rewritten_query # <<>>
                 => local[i].web_query = state[i].rewritten_query
              /\ state[i].rewritten_query = <<>>
                 => local[i].web_query = state[i].query

\* a search issued with a rewritten query that differs from the original one
C27_Witness ==
    \E i \in Invocations :
        /\ WebSearchIssued(i)
        /\ state[i].query = <<"T", "q">>
        /\ state[i].rewritten_query = <<"x">>
        /\ local[i].web_query = <<"x">>

\* C27 as stated: the web search is issued with the rewritten query, never
\* with the original one.
C27_AlwaysRewrittenQuery ==
    \A i \in Invocations :
        WebSearchIssued(i)
        => /\ local[i].web_query = state[i].rewritten_query
           /\ local[i].web_query # state[i].query

\* the web search returned, with no results
NoResultsFound(i) ==
    /\ WebSearchIssued(i)
    /\ local[i].error # "tavily"
    /\ local[i].n_results = 0

\* C28: a web search that returns zero results leaves the sentinel text, not
\* the empty text, in web_results and does not fail; generate runs next on
\* that text, and unless its own model call fails the invocation returns an
\* answer with no citations.
C28_ZeroResultsSentinel ==
    \A i \in Invocations :
        NoResultsFound(i)
        => /\ state[i].web_results = NoWebResults
           /\ state[i].web_results # EmptyText
           /\ pc[i] \in {"generate", "END", "failed"}
           /\ pc[i] = "generate" => LastNode(i) = "web_search"
           /\ pc[i] = "failed" => LastNode(i) = "generate" /\ local[i].error = "generate"
           /\ pc[i] = "END"
              => /\ LastNode(i) = "generate"
                 /\ calls[i].generate = 1
                 /\ local[i].context.path = "web"
                 /\ local[i].context.web = NoWebResults
                 /\ ~local[i].context.nothing_found
                 /\ result[i].returned
                 /\ result[i].answer = state[i].answer
                 /\ result[i].sources = <<>>

\* an invocation that returned an answer after a web search with no results
C28_Witness ==
    \E i \in Invocations :
        /\ NoResultsFound(i)
        /\ trace[i] = FallbackSequence
        /\ pc[i] = "END"
        /\ state[i].web_results = NoWebResults
        /\ result[i].returned
        /\ result[i].sources = <<>>

\* run_crag has returned or raised
Terminated(i) == pc[i] \in {"END", "failed"}

C30_ExactlyFiveKeywords ==
    \A i \in Invocations :
        ("keywords" \in local[i].done) => Len(local[i].keywords) = 5

\* document d matches every filter field of i that is present
MatchesFilters(i, d) ==
    LET f == local[i].filters
    IN  /\ Present(f.doc_type) => d.doc_type = f.doc_type
        /\ Present(f.doc_number) => d.doc_number = f.doc_number
        /\ Present(f.classification) => d.classification = f.classification

\* C31: with a non-empty restricted set, every chunk of a completed document
\* that matches the filters and whose type is null or outside the set is
\* among the rows the search returns (fetch_k is larger than the store).
C31_OnlyRestrictedTypesExcluded ==
    \A i \in Invocations :
        (pc[i] = "rank" /\ RestrictedDocTypes(tenant[i]) # <<>>)
        => LET schema == TenantRow(tenant[i]).schema_name
           IN  \A c \in chunks[schema] : \A d \in documents[schema] :
                 ( /\ d.id = c.document_id
                   /\ d.status = "completed"
                   /\ MatchesFilters(i, d)
                   /\ d.doc_type \notin Range(RestrictedDocTypes(tenant[i])) )
                 => \E m \in 1..Len(local[i].candidates) :
                        local[i].candidates[m].chunk_id = c.id

\* the citation is the one built from passage p
CitationOf(src, p) ==
    /\ src.doc_number = p.doc_number
    /\ src.title = p.title
    /\ src.page_number = p.page_number
    /\ src.s3_key = p.s3_key

\* C32: the citations run_crag returns are, in order, those of the first
\* passages its own retrieve step returned; each cited passage is a chunk of
\* a document of the invocation's tenant that is completed and not of a
\* restricted type.
C32_CitationsFromOwnRetrieval ==
    \A i \in Invocations :
        result[i].returned
        => LET docs == state[i].retrieved_docs
               sources == result[i].sources
               schema == TenantRow(tenant[i]).schema_name
           IN  /\ Len(sources) <= Len(docs)
               /\ \A k \in 1..Len(sources) :
                    /\ CitationOf(sources[k], docs[k])
                    /\ OwnSchema(i, docs[k])
                    /\ \E d \in documents[schema] :
                          /\ d.id = docs[k].document_id
                          /\ d.s3_key = sources[k].s3_key
                          /\ d.status = "completed"
                          /\ d.doc_type \notin Range(RestrictedDocTypes(tenant[i]))
                    /\ \A s \in Schemas \ {schema} :
                          \A d \in documents[s] : d.s3_key # sources[k].s3_key

\* an answer returned with citations for a proper prefix of the passages of
\* a tenant that has restricted and unfinished documents
C32_Witness ==
    \E i \in Invocations :
        /\ result[i].returned
        /\ tenant[i] = "ea"
        /\ Len(state[i].retrieved_docs) = 2
        /\ Len(result[i].sources) = 1
        /\ result[i].sources[1].s3_key = state[i].retrieved_docs[1].s3_key

\* the node that ran before the last one
NodeBeforeLast(i) == IF Len(trace[i]) < 2 THEN "" ELSE trace[i][Len(trace[i]) - 1]

\* the branch generate_node takes on the state as it is
BranchOf(i) ==
    GenerateContext(state[i].is_relevant, state[i].retrieved_docs,
                    state[i].web_results).path

\* C33: when generate is the node after grade, is_relevant is true and there
\* are passages, and generate takes the vector branch; when it is the node
\* after web_search, is_relevant is false and it takes the web branch; so
\* citations are non-empty only when rewrite and web_search did not run.
C33_BranchMatchesRoute ==
    \A i \in Invocations :
        /\ (pc[i] = "generate" /\ LastNode(i) = "grade")
           => /\ state[i].is_relevant
              /\ state[i].retrieved_docs # <<>>
              /\ BranchOf(i) = "vector"
        /\ (pc[i] = "generate" /\ LastNode(i) = "web_search")
           => /\ ~state[i].is_relevant
              /\ BranchOf(i) = "web"
        /\ (LastNode(i) = "generate" /\ NodeBeforeLast(i) = "grade")
           => local[i].context.path = "vector"
        /\ (LastNode(i) = "generate" /\ NodeBeforeLast(i) = "web_search")
           => local[i].context.path = "web" /\ local[i].context.sources = <<>>
        /\ (state[i].sources # <<>> \/ result[i].sources # <<>>)
           => ~Ran(i, "rewrite") /\ ~Ran(i, "web_search")

\* generate ran after web_search with passages in the state, and took the
\* web branch
C33_Witness ==
    \E i \in Invocations :
        /\ pc[i] = "END"
        /\ trace[i] = FallbackSequence
        /\ local[i].context.path = "web"
        /\ state[i].retrieved_docs # <<>>
        /\ ~state[i].is_relevant
        /\ result[i].sources = <<>>

\* generate ran straight after grade and returned citations
C33_VectorRouteTaken ==
    \E i \in Invocations :
        /\ pc[i] = "END"
        /\ trace[i] = VectorSequence
        /\ local[i].context.path = "vector"
        /\ result[i].sources # <<>>

\* the positions of an invocation inside retrieve_node
InRetrieve(i) == pc[i] \in {"retrieve", "gather", "rank"}

\* C34: a step of a node changes no state field but the node's own:
\* retrieved_docs is written by retrieve only, is_relevant by grade,
\* rewritten_query by rewrite, web_results by web_search, answer and sources
\* by generate, and query and usage by none; the prompts of grade, rewrite
\* and generate are built on the query run_crag was called with, also after
\* a rewrite.
C34_NodesWriteOwnFields ==
    /\ [][\A i \in Invocations :
            pc[i] # "idle"
            => /\ state'[i].query = state[i].query
               /\ state'[i].usage = state[i].usage
               /\ state'[i].retrieved_docs # state[i].retrieved_docs => InRetrieve(i)
               /\ state'[i].is_relevant # state[i].is_relevant => pc[i] = "grade"
               /\ state'[i].rewritten_query # state[i].rewritten_query => pc[i] = "rewrite"
               /\ state'[i].web_results # state[i].web_results => pc[i] = "web_search"
               /\ state'[i].answer # state[i].answer => pc[i] = "generate"
               /\ state'[i].sources # state[i].sources => pc[i] = "generate"]_vars
    /\ [](\A i \in Invocations :
            pc[i] # "idle"
            => /\ \E r \in requests[i] : state[i].query = r[3]
               /\ local[i].prompt_query \in {<<>>, state[i].query}
               /\ LastNode(i) = "generate" => local[i].prompt_query = state[i].query)

\* an answer was generated after a rewrite that differs from the query
C34_Witness ==
    \E i \in Invocations :
        /\ pc[i] = "END"
        /\ trace[i] = FallbackSequence
        /\ state[i].query = <<"T", "q">>
        /\ state[i].rewritten_query = <<"x">>
        /\ local[i].prompt_query = <<"T", "q">>
        /\ state[i].web_results # EmptyText
        /\ result[i].returned

\* upload u has a job row
HasJob(u) == upload[u].job_id # Null

\* the job row of upload u
JobOf(u) == JobRow(SchemaOf(u), upload[u].job_id)

\* C35: a job that is pending or processing has no document_id, and a job
\* that is completed has one.
C35_DocumentIdFollowsStatus ==
    \A s \in Schemas : \A j \in ingest_jobs[s] :
        /\ j.status \in {"pending", "processing", "completed", "failed"}
        /\ j.status \in {"pending", "processing"} => j.document_id = Null
        /\ j.status = "completed" => j.document_id # Null

\* a job completed as a duplicate, with the id of the stored document
C35_Witness ==
    \E u, v \in Uploads :
        /\ u # v
        /\ HasJob(u) /\ HasJob(v)
        /\ JobOf(u).status = "completed"
        /\ JobOf(v).status = "completed"
        /\ JobOf(u).document_id = DocumentIdOf(u)
        /\ JobOf(v).document_id = DocumentIdOf(u)

\* the status of u's job, "none" before the row is inserted
StatusOf(u) == IF HasJob(u) THEN JobOf(u).status ELSE "none"

\* the moves of a job's status the claim allows
ForwardMoves ==
    { <<"none", "pending">>, <<"pending", "processing">>,
      <<"processing", "completed">>, <<"processing", "failed">> }

C37_OneDocumentPerHash ==
    /\ \A s \in Schemas : \A d1, d2 \in documents[s] :
          d1.file_hash = d2.file_hash => d1.id = d2.id
    /\ \A u, v \in Uploads :
          (/\ u # v
           /\ upload[u].tenant = upload[v].tenant
           /\ upload[u].file_hash = upload[v].file_hash)
          => upload[u].tx_docs = {} \/ upload[v].tx_docs = {}

\* two uploads of the same bytes to one tenant both passed the upload-time
\* check and both second checks, one stored the document and the other's
\* insert was refused
C37_Witness ==
    \E u, v \in Uploads :
        /\ u # v
        /\ upload[u].tenant = upload[v].tenant
        /\ upload[u].file_hash = upload[v].file_hash
        /\ HasJob(u) /\ HasJob(v)
        /\ \E d \in documents[SchemaOf(u)] : d.id = DocumentIdOf(u)
        /\ upload[v].error = "IntegrityError"
        /\ Cardinality({ d \in documents[SchemaOf(u)] :
                           d.file_hash = upload[u].file_hash }) = 1

\* C38: a job that ends while a document with its bytes is stored for its
\* tenant by another upload, and that no collaborator failed, is completed
\* with that document's id; it is not failed.
C38_DuplicateJobCompletes ==
    \A u \in Uploads :
        ( /\ HasJob(u)
          /\ upload[u].pc = "done"
          /\ upload[u].duplicates_at_end # {}
          /\ upload[u].error \notin {"S3 upload failed", "extract_pages failed",
                                     "embed_batch failed"} )
        => /\ JobOf(u).status = "completed"
           /\ JobOf(u).document_id \in upload[u].duplicates_at_end

\* the committed rows of u's own document and chunks
OwnDocuments(u) == { d \in documents[SchemaOf(u)] : d.id = DocumentIdOf(u) }

OwnChunks(u) == { c \in chunks[SchemaOf(u)] : c.document_id = DocumentIdOf(u) }

\* C39: in every state the stored rows of a pipeline run are all there or
\* none is: its document is stored exactly when its job is completed with
\* that document's id, and then every chunk of it is stored; before the
\* commit, and after a failure, no document or chunk row of the run is
\* stored; and every stored chunk has its document stored.
C39_CommitIsAtomic ==
    /\ \A u \in Uploads :
          upload[u].tenant # Null
          => /\ OwnDocuments(u) # {}
                <=> (HasJob(u) /\ JobOf(u).status = "completed"
                               /\ JobOf(u).document_id = DocumentIdOf(u))
             /\ OwnDocuments(u) # {}
                => /\ OwnChunks(u) = ChunkRows(u)
                   /\ Cardinality(OwnChunks(u)) = Cardinality(upload[u].chunk_pages)
             /\ OwnDocuments(u) = {} => OwnChunks(u) = {}
             /\ StatusOf(u) = "failed"
                => OwnDocuments(u) = {} /\ OwnChunks(u) = {} /\ upload[u].tx_docs = {}
    /\ \A s \in Schemas : \A c \in chunks[s] :
          \E d \in documents[s] : d.id = c.document_id

\* a document of two chunks is stored by one run while another run of the
\* same tenant has failed after its flush was refused
C39_Witness ==
    \E u, v \in Uploads :
        /\ u # v
        /\ HasJob(u) /\ HasJob(v)
        /\ upload[u].tenant = upload[v].tenant
        /\ OwnDocuments(u) # {}
        /\ Cardinality(OwnChunks(u)) = 2
        /\ JobOf(u).status = "completed"
        /\ StatusOf(v) = "failed"
        /\ OwnDocuments(v) = {}

====
